---- MODULE Spec2Model ----
(***************************************************************************)
(* Model of the icomment repository: the KV-backed rate limiter            *)
(* (RateLimiter, src/unnamed/part_001) and the comment tree store          *)
(* (spec.md 4.1 over the tables of migrations/0001_init_schema.sql).       *)
(***************************************************************************)
EXTENDS Integers, Sequences, FiniteSets, Bags, TLC

(***************************************************************************)
(* Bounds of the model                                                     *)
(***************************************************************************)
NumProcs == 2
MaxCalls == 2
MaxSeqCalls == 3
MaxConcCalls == 5
MaxTicks == 2
MaxRLTicks == 1
MaxBatchCalls == 3
MaxResetCalls == 3
MaxComments == 3
MaxDeleteComments == 2
MaxEditComments == 2
MaxRefComments == 2
MaxRaceComments == 3
MaxUserComments == 1
MaxTime == 2
MaxDays == 8
MaxSetupRuns == 4
MaxCounterCalls == 2
MaxFrameCalls == 2
MaxPocCalls == 3

(***************************************************************************)
(* Rate limiter: constants of the class                                    *)
(***************************************************************************)
windowMs == 60 * 1000
ttlBufferSeconds == 10
TickMs == windowMs \div 2

Users == {"alice", "anonymous"}
\* how the callers identify themselves: a user id when authenticated, 'anonymous' otherwise
Callers == {<<"alice", TRUE>>, <<"anonymous", FALSE>>}
Actions == {"read", "write"}
Classes == {"authenticated", "anonymous"}

VARIABLES
  now,        \* Date.now(), in ms
  answered,   \* history: some call to the KV namespace resolved without raising
  kv,         \* the KV namespace: key -> [val, exp]
  settings,   \* RateLimiter.settings
  flight,     \* the checkLimit calls in flight (a bag): their locals and the await they are at
  last,       \* the call that returned last, with its RateLimitResult
  calls,      \* history: number of checkLimit calls made so far
  peak,       \* history: largest number of checkLimit calls in flight at one moment
  hist,       \* history of the calls, per counter key
  batch,      \* the checkMultiple call in progress: its arguments, loop index and results
  discussions, \* the discussions table: id -> row
  comments,   \* the comments table: the rows in insertion order
  ctime,      \* CURRENT_TIMESTAMP of the relational store
  res,        \* the comment store operation that returned last, with its outcome
  pending,    \* the CreateComment calls between their checks and their insert
  users,      \* the users table: id -> row
  sessions,   \* the session keys of the KV namespace: session id -> stored value
  env,        \* the environment of the Pages Functions (AUTH_ENABLED)
  req,        \* the request being served: its inputs and the context the middleware attached
  resp,       \* the users-table call or request handler that returned last, with its outcome
  issued,     \* history: the session ids generated so far, with their user and fate
  cloud,      \* the Cloudflare account the setup and teardown scripts work on
  poc         \* the createOrGetPOCUser calls under way, and what they returned

rlvars == <<now, answered, kv, settings, flight, last, calls, peak, hist, batch>>

csvars == <<discussions, comments, ctime, res, pending>>

auvars == <<users, sessions, env, req, resp, issued, cloud, poc>>

vars == <<now, answered, kv, settings, flight, last, calls, peak, hist, batch,
          discussions, comments, ctime, res, pending,
          users, sessions, env, req, resp, issued, cloud, poc>>

(***************************************************************************)
(* Pure helpers                                                            *)
(***************************************************************************)
Max(a, b) == IF a >= b THEN a ELSE b

\* Math.floor(a / b) for a >= 0, b > 0
Floor(a, b) == a \div b

\* Math.ceil(a / b) for a >= 0, b > 0
Ceil(a, b) == (a + b - 1) \div b

\* String(n) for an integer n >= 0: its decimal digits, most significant first
RECURSIVE StringOf(_)
StringOf(n) == IF n < 10 THEN <<n>> ELSE Append(StringOf(n \div 10), n % 10)

\* parseInt(s, 10) for a string of decimal digits
RECURSIVE ParseInt(_)
ParseInt(s) ==
  IF Len(s) = 0 THEN 0
  ELSE 10 * ParseInt(SubSeq(s, 1, Len(s) - 1)) + s[Len(s)]

\* what kv.get resolves to for a missing or expired key
Null == <<-1>>

\* JavaScript truthiness of a string-or-null
Truthy(s) == s # Null /\ s # <<>>

\* `rate_limit:${userId}:${action}:${windowStart}`
RateKey(userId, action, windowStart) == <<"rate_limit", userId, action, windowStart>>

WindowStart(t) == Floor(t, windowMs) * windowMs

\* variant: the counter is kept for half the window
ExpirationTtlHalfWindow == Ceil(windowMs, 1000) \div 2

ExpirationTtl == Ceil(windowMs, 1000) + ttlBufferSeconds

\* kv.get(key): the stored value, null when absent or past its expiry
KVGet(key) ==
  IF key \in DOMAIN kv /\ kv[key].exp > now THEN kv[key].val ELSE Null

\* variant: the put drops every other key of the namespace
KVPutAlone(key, value, ttl) ==
  [k \in {key} |-> [val |-> value, exp |-> now + ttl * 1000]]

\* kv.put(key, value, {expirationTtl})
KVPut(key, value, ttl) ==
  [k \in DOMAIN kv \cup {key} |->
     IF k = key THEN [val |-> value, exp |-> now + ttl * 1000] ELSE kv[k]]

\* kv.delete(key)
KVDelete(key) == [k \in DOMAIN kv \ {key} |-> kv[k]]

\* the settings the constructor installs
DefaultSettings ==
  [authenticated |-> [read  |-> [maxRequests |-> 100, windowMs |-> windowMs],
                      write |-> [maxRequests |-> 10,  windowMs |-> windowMs]],
   anonymous     |-> [read  |-> [maxRequests |-> 30,  windowMs |-> windowMs],
                      write |-> [maxRequests |-> 0,   windowMs |-> windowMs]]]

Cfg(r, w) == [read  |-> [maxRequests |-> r, windowMs |-> windowMs],
              write |-> [maxRequests |-> w, windowMs |-> windowMs]]

\* the Partial<RateLimitSettings> values passed to updateSettings
SettingsInputs ==
  { [c \in {"authenticated"} |-> Cfg(2, 1)],
    [c \in {"anonymous"} |-> Cfg(1, 1)] }

\* isAuthenticated ? settings.authenticated[action] : settings.anonymous[action]
ConfigOf(action, isAuthenticated) ==
  IF isAuthenticated THEN settings.authenticated[action]
  ELSE settings.anonymous[action]

NoResult == [kind |-> "none"]

KeyOf(c) == RateKey(c.userId, c.action, c.windowStart)

\* variant: no short circuit, the anonymous write goes to the counter store
AnonymousWriteNotShortCircuited(action, isAuthenticated, maxRequests) == FALSE

\* line 68: anonymous writes are refused outright when their bucket is empty
AnonymousWriteDenied(action, isAuthenticated, maxRequests) ==
  ~isAuthenticated /\ action = "write" /\ maxRequests = 0

\* variant: off by one, count <= maxRequests
AllowedOffByOne(count, maxRequests) == count <= maxRequests

\* line 87
Allowed(count, maxRequests) == count < maxRequests

\* line 86
Remaining(count, maxRequests) == Max(0, maxRequests - count)

\* variant: the count is written back without the increment
NotIncremented(count) == StringOf(count)

\* variant: the count is written back raised by two
IncrementedByTwo(count) == StringOf(count + 2)

\* line 91: the value written back, String(count + 1)
Incremented(count) == StringOf(count + 1)

\* the 60-second-aligned window a moment falls in
WindowOf(t) == (t \div 60000) * 60000

\* what the history is kept by: identity, action and the window of the call's time
HKey(c) == <<c.userId, c.action, WindowOf(c.now)>>

(***************************************************************************)
(* History kept per identity, action and window (not program state)        *)
(*   completed   calls that returned                                       *)
(*   admitted    calls that returned allowed = true                        *)
(*   stale       admitted calls whose put replaced a value other than the  *)
(*               one they had read                                         *)
(*   maxRequests the bucket limit of the first call                        *)
(*   pure        every call used that limit, the store answered every      *)
(*               call within the window, no resetLimit removed the counter *)
(*   seq         no two of the calls overlapped                            *)
(***************************************************************************)
NoHist == [completed |-> 0, admitted |-> 0, stale |-> 0, maxRequests |-> -1,
           pure |-> TRUE, seq |-> TRUE]

H(key) == IF key \in DOMAIN hist THEN hist[key] ELSE NoHist

SetH(key, v) == [k \in DOMAIN hist \cup {key} |-> IF k = key THEN v ELSE hist[k]]

\* the history of a key when a call on it starts
Started(key, maxRequests) ==
  LET h == H(key) IN
  [h EXCEPT !.maxRequests = IF h.maxRequests = -1 THEN maxRequests ELSE h.maxRequests,
            !.pure = h.pure /\ h.maxRequests \in {-1, maxRequests},
            !.seq = h.seq /\ ~ \E c \in BagToSet(flight) : HKey(c) = key]

\* the history of a key when a call on it returns
Returned(h, allowed, isStale, storeOk) ==
  [h EXCEPT !.completed = h.completed + 1,
            !.admitted = h.admitted + (IF allowed THEN 1 ELSE 0),
            !.stale = h.stale + (IF isStale THEN 1 ELSE 0),
            !.pure = h.pure /\ storeOk]

\* the record of a returned checkLimit call
Outcome(c, path, result) ==
  [kind |-> "checkLimit", userId |-> c.userId, action |-> c.action,
   isAuthenticated |-> c.isAuthenticated, maxRequests |-> c.maxRequests,
   now |-> c.now, windowStart |-> c.windowStart, count |-> c.count,
   path |-> path, result |-> result]

\* no checkMultiple call is in progress
NoBatch == [active |-> FALSE]

(***************************************************************************)
(* Rate limiter: the state after the constructor                           *)
(***************************************************************************)
InitRL ==
  /\ now = 0
  /\ answered = FALSE
  /\ kv = <<>>
  /\ settings = DefaultSettings
  /\ flight = EmptyBag
  /\ last = NoResult
  /\ calls = 0
  /\ peak = 0
  /\ hist = <<>>
  /\ batch = NoBatch

(***************************************************************************)
(* checkLimit, lines 58-79: pick the bucket, short-circuit anonymous       *)
(* writes, compute the window and the key                                  *)
(***************************************************************************)
CheckLimitStart(userId, action, isAuthenticated) ==
  LET config == ConfigOf(action, isAuthenticated)
      windowStart == WindowStart(now)
      key == RateKey(userId, action, windowStart)
      c == [pc |-> "get", userId |-> userId, action |-> action,
            isAuthenticated |-> isAuthenticated,
            maxRequests |-> config.maxRequests, now |-> now,
            windowStart |-> windowStart, count |-> 0]
      hk == HKey(c)
      h0 == Started(hk, config.maxRequests)
  IN
  /\ calls' = calls + 1
  /\ peak' = Max(peak, BagCardinality(flight) + 1)
  /\ IF AnonymousWriteDenied(action, isAuthenticated, config.maxRequests)
     THEN /\ last' = Outcome(c, "short",
                       [allowed |-> FALSE, remaining |-> 0,
                        resetTime |-> now + windowMs])
          /\ hist' = SetH(hk, Returned(h0, FALSE, FALSE, TRUE))
          /\ UNCHANGED flight
     ELSE /\ flight' = flight (+) SetToBag({c})
          /\ hist' = SetH(hk, h0)
          /\ UNCHANGED last
  /\ UNCHANGED <<now, answered, kv, settings>>
  /\ UNCHANGED <<batch, csvars, auvars>>

\* variant: the catch block refuses the request
FailClosed(c) ==
  [allowed |-> FALSE, remaining |-> 0, resetTime |-> c.now + windowMs]

\* the catch block, lines 103-111
FailOpen(c) ==
  [allowed |-> TRUE, remaining |-> c.maxRequests, resetTime |-> c.now + windowMs]

\* the in-flight call c returns `result`
Return(c, path, result, isStale, storeOk) ==
  LET hk == HKey(c) IN
  /\ last' = Outcome(c, path, result)
  /\ hist' = SetH(hk, Returned(H(hk), result.allowed, isStale,
                               storeOk /\ WindowOf(now) = WindowOf(c.now)))

(***************************************************************************)
(* checkLimit, lines 81-87 and 96-102: the awaited kv.get resolves, or      *)
(* raises (ok = FALSE)                                                     *)
(***************************************************************************)
CheckLimitGet(c, ok) ==
  LET key == KeyOf(c)
      countStr == KVGet(key)
      count == IF Truthy(countStr) THEN ParseInt(countStr) ELSE 0
      remaining == Remaining(count, c.maxRequests)
      allowed == Allowed(count, c.maxRequests)
      resetTime == c.windowStart + windowMs
      c1 == [c EXCEPT !.count = count]
  IN
  /\ BagIn(c, flight) /\ c.pc = "get"
  /\ answered' = (answered \/ ok)
  /\ IF ~ok
     THEN /\ Return(c, "catch", FailOpen(c), FALSE, FALSE)
          /\ flight' = flight (-) SetToBag({c})
     ELSE IF allowed
     THEN /\ flight' = (flight (-) SetToBag({c})) (+) SetToBag({[c1 EXCEPT !.pc = "put"]})
          /\ hist' = SetH(HKey(c), [H(HKey(c)) EXCEPT
                         !.pure = @ /\ WindowOf(now) = WindowOf(c.now)])
          /\ UNCHANGED last
     ELSE /\ Return(c1, "ok",
                    [allowed |-> allowed, remaining |-> remaining,
                     resetTime |-> resetTime], FALSE, TRUE)
          /\ flight' = flight (-) SetToBag({c})
  /\ UNCHANGED <<now, kv, settings, calls, peak>>
  /\ UNCHANGED <<batch, csvars, auvars>>

\* variant: the put is refused when the counter no longer holds the value read
CheckLimitPutRechecked(c, ok) ==
  LET key == KeyOf(c)
      cur == KVGet(key)
      curCount == IF Truthy(cur) THEN ParseInt(cur) ELSE 0
      fresh == curCount = c.count
  IN
  /\ BagIn(c, flight) /\ c.pc = "put"
  /\ answered' = (answered \/ ok)
  /\ flight' = flight (-) SetToBag({c})
  /\ IF ~ok
     THEN /\ Return(c, "catch", FailOpen(c), FALSE, FALSE)
          /\ UNCHANGED kv
     ELSE /\ kv' = IF fresh THEN KVPut(key, Incremented(c.count), ExpirationTtl)
                   ELSE kv
          /\ Return(c, "ok",
                    [allowed |-> fresh,
                     remaining |-> Remaining(c.count, c.maxRequests),
                     resetTime |-> c.windowStart + windowMs],
                    FALSE, TRUE)
  /\ UNCHANGED <<now, settings, calls, peak>>
  /\ UNCHANGED <<batch, csvars, auvars>>

(***************************************************************************)
(* checkLimit, lines 89-102: the awaited kv.put resolves, or raises        *)
(***************************************************************************)
CheckLimitPut(c, ok) ==
  LET key == KeyOf(c)
      cur == KVGet(key)
      curCount == IF Truthy(cur) THEN ParseInt(cur) ELSE 0
  IN
  /\ BagIn(c, flight) /\ c.pc = "put"
  /\ answered' = (answered \/ ok)
  /\ flight' = flight (-) SetToBag({c})
  /\ IF ~ok
     THEN /\ Return(c, "catch", FailOpen(c), FALSE, FALSE)
          /\ UNCHANGED kv
     ELSE /\ kv' = KVPut(key, Incremented(c.count), ExpirationTtl)
          /\ Return(c, "ok",
                    [allowed |-> TRUE,
                     remaining |-> Remaining(c.count, c.maxRequests),
                     resetTime |-> c.windowStart + windowMs],
                    curCount # c.count, TRUE)
  /\ UNCHANGED <<now, settings, calls, peak>>
  /\ UNCHANGED <<batch, csvars, auvars>>

(***************************************************************************)
(* checkMultiple, lines 121-133: results = {} and the loop is entered      *)
(***************************************************************************)
CheckMultipleStart(userId, actions, isAuthenticated) ==
  /\ ~batch.active
  /\ flight = EmptyBag
  /\ batch' = [active |-> TRUE, userId |-> userId,
               isAuthenticated |-> isAuthenticated, actions |-> actions,
               i |-> 1, results |-> <<>>, log |-> <<>>, mark |-> calls]
  /\ UNCHANGED <<now, answered, kv, settings, flight, last, calls, peak, hist>>
  /\ UNCHANGED <<csvars, auvars>>

\* the loop body, line 129, is at its call of checkLimit
CheckMultipleAtCall ==
  /\ batch.active
  /\ batch.i <= Len(batch.actions)
  /\ calls = batch.mark

\* variant: a denied action takes back the increments of the batch's earlier
\* actions
CheckMultipleCollectRollsBack ==
  /\ batch.active
  /\ batch.i <= Len(batch.actions)
  /\ calls = batch.mark + 1
  /\ flight = EmptyBag
  /\ LET action == batch.actions[batch.i] IN
       batch' = [batch EXCEPT
                  !.results = [a \in DOMAIN batch.results \cup {action} |->
                                 IF a = action THEN last.result
                                 ELSE batch.results[a]],
                  !.log = Append(batch.log, last),
                  !.i = batch.i + 1,
                  !.mark = calls]
  /\ kv' = IF last.result.allowed THEN kv
           ELSE [k \in DOMAIN kv \ {KeyOf(batch.log[j]) : j \in 1..Len(batch.log)}
                   |-> kv[k]]
  /\ UNCHANGED <<now, answered, settings, flight, last, calls, peak, hist>>
  /\ UNCHANGED <<csvars, auvars>>

\* line 129: the awaited checkLimit has returned and results[action] is set
CheckMultipleCollect ==
  /\ batch.active
  /\ batch.i <= Len(batch.actions)
  /\ calls = batch.mark + 1
  /\ flight = EmptyBag
  /\ LET action == batch.actions[batch.i] IN
       batch' = [batch EXCEPT
                  !.results = [a \in DOMAIN batch.results \cup {action} |->
                                 IF a = action THEN last.result
                                 ELSE batch.results[a]],
                  !.log = Append(batch.log, last),
                  !.i = batch.i + 1,
                  !.mark = calls]
  /\ UNCHANGED <<now, answered, kv, settings, flight, last, calls, peak, hist>>
  /\ UNCHANGED <<csvars, auvars>>

\* line 132: return results
CheckMultipleReturn ==
  /\ batch.active
  /\ batch.i > Len(batch.actions)
  /\ last' = [kind |-> "checkMultiple", userId |-> batch.userId,
              isAuthenticated |-> batch.isAuthenticated,
              actions |-> batch.actions, results |-> batch.results,
              log |-> batch.log]
  /\ batch' = NoBatch
  /\ UNCHANGED <<now, answered, kv, settings, flight, calls, peak, hist>>
  /\ UNCHANGED <<csvars, auvars>>

(***************************************************************************)
(* resetLimit, lines 141-152; ok = FALSE when kv.delete raises              *)
(***************************************************************************)
\* the record of a returned resetLimit call: true with the key it deleted, or false
ResetOutcome(userId, action, ok) ==
  IF ok
  THEN [kind |-> "resetLimit", userId |-> userId, action |-> action,
        windowStart |-> WindowStart(now), ok |-> TRUE]
  ELSE [kind |-> "resetLimit", ok |-> FALSE]

\* variant: removes the counters of every window of the identity and action
ResetLimitEveryWindow(userId, action, ok) ==
  LET key == RateKey(userId, action, WindowStart(now))
      hk == <<userId, action, WindowOf(now)>>
  IN
  /\ answered' = (answered \/ ok)
  /\ last' = ResetOutcome(userId, action, ok)
  /\ IF ok
     THEN /\ kv' = [k \in {j \in DOMAIN kv : ~(j[2] = userId /\ j[3] = action)} |-> kv[k]]
          /\ hist' = IF key \in DOMAIN kv
                     THEN SetH(hk, [H(hk) EXCEPT !.pure = FALSE])
                     ELSE hist
     ELSE UNCHANGED <<kv, hist>>
  /\ UNCHANGED <<now, settings, flight, calls, peak>>
  /\ UNCHANGED <<batch, csvars, auvars>>

ResetLimit(userId, action, ok) ==
  LET key == RateKey(userId, action, WindowStart(now))
      hk == <<userId, action, WindowOf(now)>>
  IN
  /\ answered' = (answered \/ ok)
  /\ last' = ResetOutcome(userId, action, ok)
  /\ IF ok
     THEN /\ kv' = KVDelete(key)
          /\ hist' = IF key \in DOMAIN kv
                     THEN SetH(hk, [H(hk) EXCEPT !.pure = FALSE])
                     ELSE hist
     ELSE UNCHANGED <<kv, hist>>
  /\ UNCHANGED <<now, settings, flight, calls, peak>>
  /\ UNCHANGED <<batch, csvars, auvars>>

(***************************************************************************)
(* updateSettings, lines 158-163                                           *)
(***************************************************************************)
UpdateSettings(s) ==
  /\ settings' = [c \in Classes |-> IF c \in DOMAIN s THEN s[c] ELSE settings[c]]
  /\ UNCHANGED <<now, answered, kv, flight, last, calls, peak, hist>>
  /\ UNCHANGED <<batch, csvars, auvars>>

(***************************************************************************)
(* The environment: the clock advances                                     *)
(***************************************************************************)
Tick ==
  /\ now + TickMs <= MaxTicks * TickMs
  /\ now' = now + TickMs
  /\ UNCHANGED <<answered, kv, settings, flight, last, calls, peak, hist>>
  /\ UNCHANGED <<batch, csvars, auvars>>

(***************************************************************************)
(* Comment tree store (spec.md 4.1) over the discussions and comments      *)
(* tables of migrations/0001_init_schema.sql                               *)
(***************************************************************************)
\* a NULL column (parent_comment_id, deleted_at); ids and timestamps start at 1
NULL == 0

DiscussionIds == {"d1", "d2"}
StoreUsers == {"u1", "u2", "admin"}
\* who opens the discussions and who writes the comments
Owners == {"u2"}
Authors == {"u1"}
IsAdmin(u) == u = "admin"

\* README, Input Validation: comment content is at most 10KB
MaxContentBytes == 10 * 1024

\* a content is modelled by its length in bytes
ContentInputs == {0, 1, MaxContentBytes + 1}
EditInputs == {1, 2}
ValidContent(content) == content >= 1 /\ content <= MaxContentBytes

TitleInputs == {"", "title"}
ValidTitle(title) == title # ""

InitCS ==
  /\ discussions = <<>>
  /\ comments = <<>>
  /\ ctime = 1
  /\ res = [op |-> "none"]
  /\ pending = {}

\* no request is being served
NoRequest == [pc |-> "none"]

\* process.env / wrangler vars: a variable that is not set reads undefined
Undefined == "undefined"

\* the users table holds the actors of the comment store, the admin among them;
\* no session is stored, AUTH_ENABLED is not set, no request is being served
\* the resources of the project: D1 database icomment-db, KV namespace
\* icomment-kv, R2 bucket icomment-attachments, Pages project guru-comments
Resources == {"d1", "kv", "r2", "pages"}

\* an account on which setup never ran, and no teardown under way
FreshAccount ==
  [d1 |-> 0,              \* databases named icomment-db
   tables |-> FALSE,      \* the schema of 0001_init_schema.sql is in the database
   migrations |-> 0,      \* executions of the migration file that succeeded
   pocUsers |-> 0,        \* rows of users with username mahesh.local
   others |-> {},         \* which of the KV namespace, R2 bucket, Pages project exist
   runs |-> 0,            \* setup runs so far
   finished |-> FALSE,    \* a setup run has finished successfully
   pc |-> "idle",         \* the prompt the teardown script waits at
   answers |-> <<>>,      \* the answers given in this teardown run, by prompt
   commands |-> {}]       \* the delete commands issued in this teardown run

InitAU ==
  /\ users = [u \in StoreUsers |-> [username |-> u, is_admin |-> IsAdmin(u)]]
  /\ sessions = <<>>
  /\ env = [AUTH_ENABLED |-> Undefined]
  /\ req = NoRequest
  /\ resp = [op |-> "none"]
  /\ issued = <<>>
  /\ cloud = FreshAccount
  /\ poc = [calls |-> [i \in 1..MaxPocCalls |-> [pc |-> "idle", thrown |-> FALSE,
                                                  id |-> Undefined,
                                                  path |-> "none"]],
            \* history: a D1 statement raised for another reason than a constraint
            dbFailed |-> FALSE]

Init == InitRL /\ InitCS /\ InitAU

Live(row) == row.deleted_at = NULL

Exists(c) == c \in 1..Len(comments)

LiveDiscussion(d) == d \in DOMAIN discussions /\ Live(discussions[d])

\* the variant of the permission rule that forgets the admin privilege
AuthorOnly(actor, row) == actor = row.author_id

\* the permission rule of EditComment and SoftDeleteComment: author or admin
Permitted(actor, row) == actor = row.author_id \/ IsAdmin(actor)

\* the outcome of an operation that failed with `status`
Failed(op, status, id) == [op |-> op, status |-> status, id |-> id]

(***************************************************************************)
(* CreateDiscussion(title, ownerId)                                        *)
(***************************************************************************)
\* a discussions row keeps the columns the operations below read or write;
\* its created_at and updated_at are read by none of them
CreateDiscussion(d, title, owner) ==
  /\ d \notin DOMAIN discussions
  /\ IF ~ValidTitle(title)
     THEN /\ res' = Failed("CreateDiscussion", "ValidationError", d)
          /\ UNCHANGED discussions
     ELSE /\ discussions' = [x \in DOMAIN discussions \cup {d} |->
               IF x = d
               THEN [id |-> d, created_by |-> owner, is_archived |-> FALSE,
                     deleted_at |-> NULL]
               ELSE discussions[x]]
          /\ res' = [op |-> "CreateDiscussion", status |-> "ok", id |-> d]
  /\ UNCHANGED <<comments, ctime>>
  /\ UNCHANGED <<pending, rlvars, auvars>>

\* variant: the parent is only required to exist and be live, which is all
\* the foreign key on parent_comment_id asks for
CreateCommentErrorsAnyDiscussion(d, content, parent) ==
  (IF LiveDiscussion(d) THEN {} ELSE {"NotFound"})
  \cup (IF ValidContent(content) THEN {} ELSE {"ValidationError"})
  \cup (IF parent = NULL \/ (Exists(parent) /\ Live(comments[parent]))
        THEN {} ELSE {"InvalidReference"})

\* the errors CreateComment may report for its arguments
CreateCommentErrors(d, content, parent) ==
  (IF LiveDiscussion(d) THEN {} ELSE {"NotFound"})
  \cup (IF ValidContent(content) THEN {} ELSE {"ValidationError"})
  \cup (IF parent = NULL
           \/ (Exists(parent) /\ comments[parent].discussion_id = d
               /\ Live(comments[parent]))
        THEN {} ELSE {"InvalidReference"})

(***************************************************************************)
(* CreateComment(discussionId, authorId, content, parentCommentId?)        *)
(***************************************************************************)
CreateComment(d, author, content, parent) ==
  LET errors == CreateCommentErrors(d, content, parent)
      id == Len(comments) + 1
      \* observed: the parent named is a comment of another discussion
      cross == Exists(parent) /\ comments[parent].discussion_id # d
      \* observed: the discussion named is live and the content is valid
      clean == LiveDiscussion(d) /\ ValidContent(content)
  IN
  /\ IF errors # {}
     THEN /\ \E e \in errors :
               res' = [op |-> "CreateComment", status |-> e, id |-> NULL,
                       cross |-> cross, clean |-> clean]
          /\ UNCHANGED comments
     ELSE /\ comments' = Append(comments,
               [id |-> id, discussion_id |-> d, parent_comment_id |-> parent,
                author_id |-> author, content |-> content,
                created_at |-> ctime, updated_at |-> ctime,
                deleted_at |-> NULL])
          /\ res' = [op |-> "CreateComment", status |-> "ok", id |-> id,
                     cross |-> cross, clean |-> clean]
  /\ UNCHANGED <<discussions, ctime>>
  /\ UNCHANGED <<pending, rlvars, auvars>>

(***************************************************************************)
(* CreateComment as spec.md 5 describes it, without a transaction: the     *)
(* checks (discussion, content, parent) are one read of the store, the     *)
(* insert is a later write, and other calls may run in between             *)
(***************************************************************************)
CreateCommentCheck(d, author, content, parent) ==
  LET errors == CreateCommentErrors(d, content, parent)
      cross == Exists(parent) /\ comments[parent].discussion_id # d
      clean == LiveDiscussion(d) /\ ValidContent(content)
  IN
  /\ IF errors # {}
     THEN /\ \E e \in errors :
               res' = [op |-> "CreateComment", status |-> e, id |-> NULL,
                       cross |-> cross, clean |-> clean]
          /\ UNCHANGED pending
     ELSE /\ pending' = pending \cup {[d |-> d, author |-> author,
                                        content |-> content, parent |-> parent]}
          /\ UNCHANGED res
  /\ UNCHANGED <<discussions, comments, ctime>>
  /\ UNCHANGED <<rlvars, auvars>>

\* the insert of a call that passed its checks
CreateCommentInsert(call) ==
  /\ call \in pending
  /\ pending' = pending \ {call}
  /\ comments' = Append(comments,
       [id |-> Len(comments) + 1, discussion_id |-> call.d,
        parent_comment_id |-> call.parent, author_id |-> call.author,
        content |-> call.content, created_at |-> ctime,
        updated_at |-> ctime, deleted_at |-> NULL])
  /\ res' = [op |-> "CreateComment", status |-> "ok", id |-> Len(comments) + 1,
             cross |-> FALSE, clean |-> TRUE, step |-> "insert", d |-> call.d]
  /\ UNCHANGED <<discussions, ctime>>
  /\ UNCHANGED <<rlvars, auvars>>

\* the errors EditComment and SoftDeleteComment may report
EditErrors(c, actor) ==
  (IF Exists(c) /\ Live(comments[c]) THEN {} ELSE {"NotFound"})
  \cup (IF Exists(c) /\ Permitted(actor, comments[c]) THEN {}
        ELSE IF ~Exists(c) /\ IsAdmin(actor) THEN {} ELSE {"Forbidden"})

(***************************************************************************)
(* EditComment(commentId, editorId, newContent)                            *)
(***************************************************************************)
EditComment(c, editor, newContent) ==
  LET errors == EditErrors(c, editor) IN
  /\ IF errors # {}
     THEN /\ \E e \in errors :
               res' = [op |-> "EditComment", status |-> e, id |-> c,
                       actor |-> editor,
                       was |-> IF Exists(c) THEN comments[c].updated_at
                               ELSE NULL]
          /\ UNCHANGED comments
     ELSE /\ comments' = [comments EXCEPT ![c].content = newContent,
                                           ![c].updated_at = ctime]
          /\ res' = [op |-> "EditComment", status |-> "ok", id |-> c,
                     actor |-> editor, was |-> comments[c].updated_at]
  /\ UNCHANGED <<discussions, ctime>>
  /\ UNCHANGED <<pending, rlvars, auvars>>

\* variant: a second soft delete stamps deleted_at again
SoftDeleteCommentRestamped(c, actor) ==
  /\ IF Exists(c) /\ Permitted(actor, comments[c])
     THEN /\ comments' = [comments EXCEPT ![c].deleted_at = ctime]
          /\ res' = [op |-> "SoftDeleteComment", status |-> "ok", id |-> c,
                     actor |-> actor, was |-> comments[c].deleted_at]
     ELSE /\ res' = [op |-> "SoftDeleteComment",
                     status |-> IF Exists(c) THEN "Forbidden" ELSE "NotFound",
                     id |-> c, actor |-> actor,
                     was |-> IF Exists(c) THEN comments[c].deleted_at
                             ELSE NULL]
          /\ UNCHANGED comments
  /\ UNCHANGED <<discussions, ctime>>
  /\ UNCHANGED <<pending, rlvars, auvars>>

(***************************************************************************)
(* SoftDeleteComment(commentId, actorId): the permission rule of edit;     *)
(* deleting an already-deleted comment is a no-op success                  *)
(***************************************************************************)
SoftDeleteComment(c, actor) ==
  LET errors == (IF Exists(c) THEN {} ELSE {"NotFound"})
                \cup (IF Exists(c) /\ Permitted(actor, comments[c]) THEN {}
                      ELSE IF ~Exists(c) /\ IsAdmin(actor) THEN {}
                      ELSE {"Forbidden"})
  IN
  /\ IF errors # {}
     THEN /\ \E e \in errors :
               res' = [op |-> "SoftDeleteComment", status |-> e, id |-> c,
                       actor |-> actor,
                       was |-> IF Exists(c) THEN comments[c].deleted_at
                               ELSE NULL]
          /\ UNCHANGED comments
     ELSE /\ comments' = IF Live(comments[c])
                         THEN [comments EXCEPT ![c].deleted_at = ctime]
                         ELSE comments
          /\ res' = [op |-> "SoftDeleteComment", status |-> "ok", id |-> c,
                     actor |-> actor, was |-> comments[c].deleted_at]
  /\ UNCHANGED <<discussions, ctime>>
  /\ UNCHANGED <<pending, rlvars, auvars>>

(***************************************************************************)
(* SoftDeleteDiscussion(discussionId, actorId): admin only; sets           *)
(* deleted_at and does not touch the comments                              *)
(***************************************************************************)
SoftDeleteDiscussion(d, actor) ==
  LET errors == (IF LiveDiscussion(d) THEN {} ELSE {"NotFound"})
                \cup (IF IsAdmin(actor) THEN {} ELSE {"Forbidden"})
  IN
  /\ IF errors # {}
     THEN /\ \E e \in errors :
               res' = Failed("SoftDeleteDiscussion", e, d)
          /\ UNCHANGED discussions
     ELSE /\ discussions' = [discussions EXCEPT ![d].deleted_at = ctime]
          /\ res' = [op |-> "SoftDeleteDiscussion", status |-> "ok", id |-> d]
  /\ UNCHANGED <<comments, ctime>>
  /\ UNCHANGED <<pending, rlvars, auvars>>

\* the relational store's clock advances
ClockTick ==
  /\ ctime < MaxTime
  /\ ctime' = ctime + 1
  /\ UNCHANGED <<discussions, comments, res>>
  /\ UNCHANGED <<pending, rlvars, auvars>>

(***************************************************************************)
(* ListTopLevelTree(discussionId): one fetch of the discussion's rows      *)
(* ordered by created_at then insertion id, then a depth-first assembly    *)
(* from the null-parent roots                                              *)
(***************************************************************************)
\* variant: ORDER BY created_at alone, equal timestamps coming back newest first
BeforeTiesReversed(a, b) ==
  a.created_at < b.created_at \/ (a.created_at = b.created_at /\ a.id > b.id)

\* ORDER BY created_at, with the insertion id as the secondary key
Before(a, b) ==
  a.created_at < b.created_at \/ (a.created_at = b.created_at /\ a.id < b.id)

RECURSIVE Sorted(_)
Sorted(rows) ==
  IF rows = {} THEN <<>>
  ELSE LET first == CHOOSE r \in rows : \A o \in rows \ {r} : Before(r, o)
       IN <<first>> \o Sorted(rows \ {first})

\* the bulk fetch: every row of the discussion, ordered
Fetch(d) ==
  Sorted({comments[i] : i \in {j \in 1..Len(comments) :
                                 comments[j].discussion_id = d}})

\* variant: only the direct children are looked at
HasLiveChild(fetched, id) ==
  \E i \in 1..Len(fetched) :
    fetched[i].parent_comment_id = id /\ Live(fetched[i])

RECURSIVE HasLiveDescendant(_, _)
HasLiveDescendant(fetched, id) ==
  \E i \in 1..Len(fetched) :
    /\ fetched[i].parent_comment_id = id
    /\ (Live(fetched[i]) \/ HasLiveDescendant(fetched, fetched[i].id))

\* a row is returned when it is live, or as a tombstone when it has live descendants
Shown(fetched, row) == Live(row) \/ HasLiveDescendant(fetched, row.id)

RECURSIVE Forest(_, _)
Forest(fetched, parent) ==
  LET kids == SelectSeq(fetched,
                LAMBDA r : r.parent_comment_id = parent /\ Shown(fetched, r))
  IN [i \in 1..Len(kids) |->
        [id |-> kids[i].id, tombstone |-> ~Live(kids[i]),
         created_at |-> kids[i].created_at,
         children |-> Forest(fetched, kids[i].id)]]

\* variant: the rows are listed whatever the state of their discussion
ListTopLevelTreeOfAnyDiscussion(d) == Forest(Fetch(d), NULL)

ListTopLevelTree(d) ==
  IF LiveDiscussion(d) THEN Forest(Fetch(d), NULL) ELSE <<>>

(***************************************************************************)
(* The users table (src/lib/db.ts) under the foreign keys of               *)
(* migrations/0001_init_schema.sql, which D1 enforces                      *)
(***************************************************************************)
\* auth-poc.ts, lines 14-23
POC_USER_ID == "mahesh-local-id"
POC_USER == [id |-> POC_USER_ID, username |-> "mahesh", is_admin |-> TRUE]

\* the User objects passed to initUser and createUser: an existing id or a new
\* one, under its own username or the username of an existing user
UserInputs ==
  [id : {"u1", "u3"}, username : {"u1", "u3"}, is_admin : BOOLEAN]

UserIds == StoreUsers \cup {"u3", POC_USER_ID}

\* the users who open discussions and write comments while the table changes
ContentUsers == {"u1", "u2"}
\* the ids and usernames looked up and updated: a seeded user and a new one
LookupIds == {"u1", "u3"}

\* discussions.created_by and comments.author_id, both ON DELETE RESTRICT
Referenced(id) ==
  \/ \E d \in DOMAIN discussions : discussions[d].created_by = id
  \/ \E i \in DOMAIN comments : comments[i].author_id = id

\* the rows an INSERT of (id, username) conflicts with: PRIMARY KEY and UNIQUE
Conflicts(user) ==
  {u \in DOMAIN users : u = user.id \/ users[u].username = user.username}

InsertRow(table, user) ==
  [u \in DOMAIN table \cup {user.id} |->
     IF u = user.id
     THEN [username |-> user.username, is_admin |-> user.is_admin]
     ELSE table[u]]

Without(table, ids) == [u \in DOMAIN table \ ids |-> table[u]]

\* mapRowToUser, lines 208-218
mapRowToUser(id) ==
  [id |-> id, username |-> users[id].username, is_admin |-> users[id].is_admin]

(***************************************************************************)
(* initUser, lines 15-27: INSERT OR REPLACE deletes the rows the new row    *)
(* conflicts with and inserts the new row; the statement fails when a row  *)
(* it has to delete is referenced                                          *)
(***************************************************************************)
initUser(user) ==
  /\ IF \E u \in Conflicts(user) : Referenced(u)
     THEN /\ resp' = [op |-> "initUser", status |-> "error", id |-> user.id]
          /\ UNCHANGED users
     ELSE /\ users' = InsertRow(Without(users, Conflicts(user)), user)
          /\ resp' = [op |-> "initUser", status |-> "ok", id |-> user.id]
  /\ UNCHANGED <<sessions, env, req, issued, cloud, poc>>
  /\ UNCHANGED <<rlvars, csvars>>

(***************************************************************************)
(* getUserById, lines 35-49; getUserByUsername, lines 57-71; getAllUsers,  *)
(* lines 80-107                                                            *)
(***************************************************************************)
getUserById(id) ==
  /\ resp' = [op |-> "getUserById", status |-> "ok", id |-> id,
              user |-> IF id \in DOMAIN users THEN mapRowToUser(id) ELSE Null]
  /\ UNCHANGED <<users, sessions, env, req, issued, cloud, poc>>
  /\ UNCHANGED <<rlvars, csvars>>

getUserByUsername(username) ==
  /\ resp' = [op |-> "getUserByUsername", status |-> "ok", id |-> username,
              user |-> IF \E u \in DOMAIN users : users[u].username = username
                       THEN mapRowToUser(CHOOSE u \in DOMAIN users :
                                           users[u].username = username)
                       ELSE Null]
  /\ UNCHANGED <<users, sessions, env, req, issued, cloud, poc>>
  /\ UNCHANGED <<rlvars, csvars>>

getAllUsers ==
  /\ resp' = [op |-> "getAllUsers", status |-> "ok", id |-> Null,
              total |-> Cardinality(DOMAIN users)]
  /\ UNCHANGED <<users, sessions, env, req, issued, cloud, poc>>
  /\ UNCHANGED <<rlvars, csvars>>

(***************************************************************************)
(* updateUserAdminStatus, lines 116-134: the UPDATE, then getUserById,     *)
(* which throws when the row does not exist                                *)
(***************************************************************************)
SetAdmin(table, id, isAdmin) ==
  [u \in DOMAIN table |->
     IF u = id THEN [table[u] EXCEPT !.is_admin = isAdmin] ELSE table[u]]

updateUserAdminStatus(id, isAdmin) ==
  /\ users' = SetAdmin(users, id, isAdmin)
  /\ resp' = [op |-> "updateUserAdminStatus",
              status |-> IF id \in DOMAIN users THEN "ok" ELSE "error", id |-> id]
  /\ UNCHANGED <<sessions, env, req, issued, cloud, poc>>
  /\ UNCHANGED <<rlvars, csvars>>

(***************************************************************************)
(* createUser, lines 164-186: a plain INSERT, which fails on a conflict     *)
(***************************************************************************)
createUser(user) ==
  /\ IF Conflicts(user) # {}
     THEN /\ resp' = [op |-> "createUser", status |-> "error", id |-> user.id]
          /\ UNCHANGED users
     ELSE /\ users' = InsertRow(users, user)
          /\ resp' = [op |-> "createUser", status |-> "ok", id |-> user.id]
  /\ UNCHANGED <<sessions, env, req, issued, cloud, poc>>
  /\ UNCHANGED <<rlvars, csvars>>

(***************************************************************************)
(* createOrGetPOCUser, auth-poc.ts lines 39-55: the stored row, or the row *)
(* createUser inserts, or the in-memory user when createUser throws        *)
(***************************************************************************)
createOrGetPOCUser ==
  /\ IF POC_USER_ID \in DOMAIN users
     THEN /\ resp' = [op |-> "createOrGetPOCUser", status |-> "ok",
                      id |-> POC_USER_ID, user |-> mapRowToUser(POC_USER_ID)]
          /\ UNCHANGED users
     ELSE IF Conflicts(POC_USER) # {}
     THEN /\ resp' = [op |-> "createOrGetPOCUser", status |-> "ok",
                      id |-> POC_USER_ID, user |-> POC_USER]
          /\ UNCHANGED users
     ELSE /\ users' = InsertRow(users, POC_USER)
          /\ resp' = [op |-> "createOrGetPOCUser", status |-> "ok",
                      id |-> POC_USER_ID, user |-> POC_USER]
  /\ UNCHANGED <<sessions, env, req, issued, cloud, poc>>
  /\ UNCHANGED <<rlvars, csvars>>

(***************************************************************************)
(* createOrGetPOCUser as concurrent calls run it: each await is a step.    *)
(* ok = FALSE when D1 raises for a reason of its own                       *)
(***************************************************************************)
POCReturn(i, thrown, id, path, failed) ==
  poc' = [calls |-> [poc.calls EXCEPT ![i] = [pc |-> "done", thrown |-> thrown,
                                             id |-> id,
                                             \* observed: the return statement taken
                                             path |-> path]],
          dbFailed |-> poc.dbFailed \/ failed]

\* the call enters the try, line 40
createOrGetPOCUserStart(i) ==
  /\ poc.calls[i].pc = "idle"
  /\ poc' = [poc EXCEPT !.calls[i].pc = "get"]
  /\ UNCHANGED <<users, sessions, env, req, resp, issued, cloud>>
  /\ UNCHANGED <<rlvars, csvars>>

\* await getUserById, lines 42-45; the catch of lines 50-54 when it raises
createOrGetPOCUserGet(i, ok) ==
  /\ poc.calls[i].pc = "get"
  /\ IF ~ok THEN POCReturn(i, FALSE, POC_USER.id, "catch", TRUE)
     ELSE IF POC_USER_ID \in DOMAIN users
     THEN POCReturn(i, FALSE, mapRowToUser(POC_USER_ID).id, "existing", FALSE)
     ELSE poc' = [poc EXCEPT !.calls[i].pc = "insert"]
  /\ UNCHANGED <<users, sessions, env, req, resp, issued, cloud>>
  /\ UNCHANGED <<rlvars, csvars>>

\* variant: the error of the INSERT leaves the call
createOrGetPOCUserInsertUncaught(i, ok) ==
  /\ poc.calls[i].pc = "insert"
  /\ IF ~ok
     THEN POCReturn(i, TRUE, Undefined, "throw", TRUE) /\ UNCHANGED users
     ELSE IF Conflicts(POC_USER) # {}
     THEN POCReturn(i, TRUE, Undefined, "throw", FALSE) /\ UNCHANGED users
     ELSE /\ users' = InsertRow(users, POC_USER)
          /\ POCReturn(i, FALSE, POC_USER.id, "created", FALSE)
  /\ UNCHANGED <<sessions, env, req, resp, issued, cloud>>
  /\ UNCHANGED <<rlvars, csvars>>

\* await createUser, lines 48-49: the INSERT fails on the row another call
\* has inserted meanwhile; the catch of lines 50-54 returns the in-memory user
createOrGetPOCUserInsert(i, ok) ==
  /\ poc.calls[i].pc = "insert"
  /\ IF ~ok
     THEN POCReturn(i, FALSE, POC_USER.id, "catch", TRUE) /\ UNCHANGED users
     ELSE IF Conflicts(POC_USER) # {}
     THEN POCReturn(i, FALSE, POC_USER.id, "catch", FALSE) /\ UNCHANGED users
     ELSE /\ users' = InsertRow(users, POC_USER)
          /\ POCReturn(i, FALSE, POC_USER.id, "created", FALSE)
  /\ UNCHANGED <<sessions, env, req, resp, issued, cloud>>
  /\ UNCHANGED <<rlvars, csvars>>

\* variant: the delete of a user who is referenced removes the row all the same
deleteUserUnrestricted(id) ==
  /\ users' = Without(users, {id})
  /\ resp' = [op |-> "deleteUser", status |-> "ok", id |-> id]
  /\ UNCHANGED <<sessions, env, req, issued, cloud, poc>>
  /\ UNCHANGED <<rlvars, csvars>>

(***************************************************************************)
(* deleteUser, lines 194-201: DELETE FROM users, which D1 rejects when a   *)
(* discussion or a comment references the row (ON DELETE RESTRICT)         *)
(***************************************************************************)
deleteUser(id) ==
  /\ IF Referenced(id)
     THEN /\ resp' = [op |-> "deleteUser", status |-> "error", id |-> id]
          /\ UNCHANGED users
     ELSE /\ users' = Without(users, {id})
          /\ resp' = [op |-> "deleteUser", status |-> "ok", id |-> id]
  /\ UNCHANGED <<sessions, env, req, issued, cloud, poc>>
  /\ UNCHANGED <<rlvars, csvars>>

(***************************************************************************)
(* Sessions (src/lib/session.ts) and the requests: the middleware           *)
(* (functions/_middleware.ts) and the handlers of the admin, login and     *)
(* logout endpoints                                                        *)
(***************************************************************************)
SessionIds == {"s1", "s2"}
\* the users sessions are created for
SessionUsers == {"u1"}

\* the Cookie header as its name=value pairs: no cookie, the session cookie alone,
\* the session cookie after another cookie
CookieInputs ==
  {<<>>}
  \cup {<<[name |-> "session_id", value |-> sid]>> : sid \in SessionIds}
  \cup {<<[name |-> "theme", value |-> "dark"], [name |-> "session_id", value |-> "s1"]>>}

\* the first pair named session_id that has a value
FirstSessionCookie(cookie) ==
  LET hits == {i \in 1..Len(cookie) :
                 cookie[i].name = "session_id" /\ cookie[i].value # ""}
  IN IF hits = {} THEN Undefined
     ELSE cookie[CHOOSE i \in hits : \A j \in hits : i <= j].value

\* session.ts, lines 126-142: split on ';' and '=', decodeURIComponent of the value
\* (the ids generateSessionId and randomUUID make hold no escaped character)
extractSessionIdFromCookies(cookie) == FirstSessionCookie(cookie)

\* _middleware.ts, lines 48-52: the match of /session_id=([^;]+)/
extractSessionIdFromCookiesMw(cookie) == FirstSessionCookie(cookie)

\* the stored session values: the bare user id (session.ts createSession) or the
\* JSON text of {user_id, created_at, expires_at} (_functions-wip login.ts)
RawSession(userId) == [fmt |-> "raw", user_id |-> userId]
JsonSession(userId) == [fmt |-> "json", user_id |-> userId]

\* JSON.parse(sessionData): a bare user id is not JSON text, the parse throws
JSONParse(data) ==
  IF data.fmt = "json" THEN [ok |-> TRUE, user_id |-> data.user_id]
  ELSE [ok |-> FALSE]

\* session.ts, line 8: 7 days in seconds
SESSION_TTL == 7 * 24 * 60 * 60

\* variant: the key expires after twice the time asked for
SessionPutTwice(sessionId, data, expirationTtl) ==
  [x \in DOMAIN sessions \cup {sessionId} |->
     IF x = sessionId
     THEN [fmt |-> data.fmt, user_id |-> data.user_id,
           exp |-> now + 2 * expirationTtl * 1000]
     ELSE sessions[x]]

\* kv.put(key, value, {expirationTtl}): the key expires expirationTtl seconds
\* after the write
SessionPut(sessionId, data, expirationTtl) ==
  [x \in DOMAIN sessions \cup {sessionId} |->
     IF x = sessionId
     THEN [fmt |-> data.fmt, user_id |-> data.user_id,
           exp |-> now + expirationTtl * 1000]
     ELSE sessions[x]]

\* kv.get(key) finds a value: the key was written and has not expired
SessionLive(sessionId) ==
  sessionId \in DOMAIN sessions /\ sessions[sessionId].exp > now

\* the text kv.get returns for a stored value
SessionText(data) ==
  IF data.fmt = "raw" THEN data.user_id ELSE "{user_id,created_at,expires_at}"

\* history: generateSessionId (session.ts lines 16-26) and crypto.randomUUID
\* return an id once; the id is kept with its user, its expiresAt and what
\* deleteSession did to it
Issue(sessionId, userId) ==
  [x \in DOMAIN issued \cup {sessionId} |->
     IF x = sessionId
     THEN [userId |-> userId, expiresAt |-> now + SESSION_TTL * 1000,
           deleteCalled |-> FALSE, deleted |-> FALSE]
     ELSE issued[x]]

NoteDelete(sessionId, ok) ==
  [x \in DOMAIN issued |->
     IF x = sessionId
     THEN [issued[x] EXCEPT !.deleteCalled = TRUE, !.deleted = @ \/ ok]
     ELSE issued[x]]

(***************************************************************************)
(* createSession, session.ts lines 34-50: kv.put(key, userId), under a new  *)
(* session id                                                              *)
(***************************************************************************)
createSession(sessionId, userId) ==
  /\ req = NoRequest
  /\ sessionId \notin DOMAIN issued
  /\ sessions' = SessionPut(sessionId, RawSession(userId), SESSION_TTL)
  /\ issued' = Issue(sessionId, userId)
  /\ resp' = [op |-> "createSession", status |-> "ok", sessionId |-> sessionId]
  /\ UNCHANGED <<users, env, req, cloud, poc>>
  /\ UNCHANGED <<rlvars, csvars>>

(***************************************************************************)
(* createSession, _functions-wip/api/auth/login.ts lines 25-40:            *)
(* kv.put(key, JSON.stringify(session))                                    *)
(***************************************************************************)
createSessionWip(sessionId, userId) ==
  /\ req = NoRequest
  /\ sessionId \notin DOMAIN issued
  /\ sessions' = SessionPut(sessionId, JsonSession(userId), SESSION_TTL)
  /\ issued' = Issue(sessionId, userId)
  /\ resp' = [op |-> "createSession", status |-> "ok", sessionId |-> sessionId]
  /\ UNCHANGED <<users, env, req, cloud, poc>>
  /\ UNCHANGED <<rlvars, csvars>>

\* deleteSession, session.ts lines 79-92; ok = FALSE when kv.delete raises
deleteSession(sessionId, ok) ==
  IF ok THEN [x \in DOMAIN sessions \ {sessionId} |-> sessions[x]] ELSE sessions

\* a call of deleteSession outside a request
DeleteSession(sessionId, ok) ==
  /\ req = NoRequest
  /\ sessions' = deleteSession(sessionId, ok)
  /\ issued' = NoteDelete(sessionId, ok)
  /\ resp' = [op |-> "deleteSession", status |-> IF ok THEN "true" ELSE "false",
              sessionId |-> sessionId]
  /\ UNCHANGED <<users, env, req, cloud, poc>>
  /\ UNCHANGED <<rlvars, csvars>>

(***************************************************************************)
(* getSessionUserId, session.ts lines 58-71: userId || null, and null when *)
(* kv.get raises (ok = FALSE)                                              *)
(***************************************************************************)
getSessionUserId(sessionId, ok) ==
  /\ req = NoRequest
  /\ resp' = [op |-> "getSessionUserId", sessionId |-> sessionId,
              \* observed: kv.get resolved
              read |-> ok,
              userId |-> IF ok /\ SessionLive(sessionId)
                         THEN SessionText(sessions[sessionId])
                         ELSE Undefined]
  /\ UNCHANGED <<users, sessions, env, req, issued, cloud, poc>>
  /\ UNCHANGED <<rlvars, csvars>>

(***************************************************************************)
(* validateSession, session.ts lines 101-119: the user of the session, and *)
(* null when the session does not resolve or getUserFn raises              *)
(* (getUser = "raise"); getUserFn is getUserById of db.ts                  *)
(***************************************************************************)
validateSession(sessionId, ok, getUser) ==
  LET userId == IF ok /\ SessionLive(sessionId)
                THEN SessionText(sessions[sessionId]) ELSE Undefined
  IN
  /\ req = NoRequest
  /\ resp' = [op |-> "validateSession", sessionId |-> sessionId,
              \* observed: kv.get resolved, and what getUserFn did
              read |-> ok, getUser |-> getUser,
              user |-> IF userId = Undefined \/ getUser = "raise"
                          \/ userId \notin DOMAIN users
                       THEN Undefined ELSE userId]
  /\ UNCHANGED <<users, sessions, env, req, issued, cloud, poc>>
  /\ UNCHANGED <<rlvars, csvars>>

\* Date.now() moves on by a day
DayMs == 24 * 60 * 60 * 1000

DayTick ==
  /\ req = NoRequest
  /\ now < MaxDays * DayMs
  /\ now' = now + DayMs
  /\ UNCHANGED <<answered, kv, settings, flight, last, calls, peak, hist, batch>>
  /\ UNCHANGED <<csvars, auvars>>

\* the environment the functions run with is set at deployment
AuthEnabledInputs == {Undefined, "true", "false"}

Deploy(v) ==
  /\ req = NoRequest
  /\ env' = [AUTH_ENABLED |-> v]
  /\ UNCHANGED <<users, sessions, req, resp, issued, cloud, poc>>
  /\ UNCHANGED <<rlvars, csvars>>

\* auth-poc.ts, lines 63-65
isPOCMode(e) == e.AUTH_ENABLED # "true"

\* _middleware.ts, lines 29-37
MiddlewarePOCUser == [id |-> "mahesh.local", username |-> "mahesh", is_admin |-> TRUE]

GetAdminUsers == "GET /api/admin/users"
PatchAdminUser == "PATCH /api/admin/users/:id"
PatchAdminUserInline == "PATCH /api/admin/users/:id (inline)"
PostLogout == "POST /api/auth/logout"
GetLogin == "GET /api/auth/login"

\* requestContext.user when the middleware set none
NoUser == [id |-> Undefined, username |-> Undefined, is_admin |-> FALSE]

\* the requests: route, method, last segment of the path, is_admin of the body
\* ("true", "false", or Undefined when the body holds no boolean is_admin)
Request(route, method, cookie, target, body) ==
  [route |-> route, method |-> method, cookie |-> cookie, target |-> target,
   body |-> body]

RequestInputs ==
  {Request(GetAdminUsers, "GET", c, Undefined, Undefined) : c \in CookieInputs}
  \cup {Request(r, "PATCH", c, t, b) :
          r \in {PatchAdminUser, PatchAdminUserInline},
          c \in {<<>>, <<[name |-> "session_id", value |-> "s1"]>>},
          t \in {"u1", "u3"}, b \in {"true", "false"}}
  \cup {Request(r, m, <<>>, t, "true") :
          r \in {PatchAdminUser, PatchAdminUserInline}, m \in {"PATCH", "GET"},
          t \in {"u1", "[id]"}}
  \cup {Request(r, "PATCH", <<>>, "u1", Undefined) :
          r \in {PatchAdminUser, PatchAdminUserInline}}
  \cup {Request(PostLogout, m, c, Undefined, Undefined) :
          m \in {"POST", "GET"}, c \in CookieInputs}
  \cup {Request(GetLogin, "GET", <<>>, Undefined, Undefined)}

\* variant: a raising kv.get lets the request through as the session's user,
\* the way the rate limiter fails open
onRequestFailOpen(r, ok) ==
  LET authEnabled == env.AUTH_ENABLED # "false"
      sessionId == extractSessionIdFromCookiesMw(r.cookie)
      sessionData == sessions[sessionId]
      unauthenticated == [isAuthenticated |-> FALSE, user |-> NoUser,
                          userId |-> Undefined, sessionId |-> Undefined]
      requestContext ==
        IF ~authEnabled
        THEN [isAuthenticated |-> TRUE, user |-> MiddlewarePOCUser,
              userId |-> MiddlewarePOCUser.id, sessionId |-> Undefined]
        ELSE IF sessionId = Undefined \/ ~SessionLive(sessionId)
        THEN unauthenticated
        ELSE IF ~JSONParse(sessionData).ok
        THEN unauthenticated
        ELSE [isAuthenticated |-> TRUE,
              user |-> [id |-> JSONParse(sessionData).user_id,
                        username |-> JSONParse(sessionData).user_id,
                        is_admin |-> FALSE],
              userId |-> JSONParse(sessionData).user_id,
              sessionId |-> sessionId]
  IN
  /\ req = NoRequest
  /\ req' = [pc |-> "handler", route |-> r.route, method |-> r.method,
             cookie |-> r.cookie, target |-> r.target, body |-> r.body,
             context |-> requestContext,
             \* observed: env.kv.get was called, and it did not raise
             lookup |-> authEnabled /\ sessionId # Undefined,
             read |-> ~(authEnabled /\ sessionId # Undefined) \/ ok]
  /\ UNCHANGED <<users, sessions, env, resp, issued, cloud, poc>>
  /\ UNCHANGED <<rlvars, csvars>>

(***************************************************************************)
(* onRequest of _middleware.ts, lines 58-123; ok = FALSE when kv.get raises *)
(***************************************************************************)
onRequest(r, ok) ==
  LET authEnabled == env.AUTH_ENABLED # "false"
      sessionId == extractSessionIdFromCookiesMw(r.cookie)
      sessionData == sessions[sessionId]
      unauthenticated == [isAuthenticated |-> FALSE, user |-> NoUser,
                          userId |-> Undefined, sessionId |-> Undefined]
      requestContext ==
        IF ~authEnabled
        THEN [isAuthenticated |-> TRUE, user |-> MiddlewarePOCUser,
              userId |-> MiddlewarePOCUser.id, sessionId |-> Undefined]
        ELSE IF sessionId = Undefined \/ ~ok \/ ~SessionLive(sessionId)
        THEN unauthenticated
        ELSE IF ~JSONParse(sessionData).ok
        THEN unauthenticated
        ELSE [isAuthenticated |-> TRUE,
              user |-> [id |-> JSONParse(sessionData).user_id,
                        username |-> JSONParse(sessionData).user_id,
                        is_admin |-> FALSE],
              userId |-> JSONParse(sessionData).user_id,
              sessionId |-> sessionId]
  IN
  /\ req = NoRequest
  /\ req' = [pc |-> "handler", route |-> r.route, method |-> r.method,
             cookie |-> r.cookie, target |-> r.target, body |-> r.body,
             context |-> requestContext,
             \* observed: env.kv.get was called, and it did not raise
             lookup |-> authEnabled /\ sessionId # Undefined,
             read |-> ~(authEnabled /\ sessionId # Undefined) \/ ok]
  /\ UNCHANGED <<users, sessions, env, resp, issued, cloud, poc>>
  /\ UNCHANGED <<rlvars, csvars>>

\* the Response of a handler, with what the handler did to the users table
Response(status, dbRead) ==
  [op |-> req.route, status |-> status, dbRead |-> dbRead,
   target |-> req.target, sessionId |-> Undefined, body |-> <<>>]

\* variant: the list is returned to every authenticated user
AdminUsersOnRequestWithoutAdminCheck(ok) ==
  LET requestContext == req.context IN
  /\ req.pc = "handler" /\ req.route = GetAdminUsers
  /\ resp' = IF ~requestContext.isAuthenticated \/ requestContext.user = NoUser
             THEN Response(401, FALSE)
             ELSE IF ~ok THEN Response(500, TRUE)
             ELSE Response(200, TRUE)
  /\ req' = NoRequest
  /\ UNCHANGED <<users, sessions, env, issued, cloud, poc>>
  /\ UNCHANGED <<rlvars, csvars>>

(***************************************************************************)
(* onRequest of functions/api/admin/users.ts, lines 86-179; ok = FALSE     *)
(* when D1 raises                                                          *)
(***************************************************************************)
AdminUsersOnRequest(ok) ==
  LET requestContext == req.context IN
  /\ req.pc = "handler" /\ req.route = GetAdminUsers
  /\ resp' = IF ~requestContext.isAuthenticated \/ requestContext.user = NoUser
             THEN Response(401, FALSE)
             ELSE IF ~requestContext.user.is_admin
             THEN Response(403, FALSE)
             ELSE IF ~ok THEN Response(500, TRUE)
             ELSE Response(200, TRUE)
  /\ req' = NoRequest
  /\ UNCHANGED <<users, sessions, env, issued, cloud, poc>>
  /\ UNCHANGED <<rlvars, csvars>>

\* the JSON body of an error response of PATCH /api/admin/users/:id: the code
\* and the message of the AppError (lines 133-213) or of the inline Response
\* (lines 370-480)
ErrorBody(code, message) == <<"success: false", code, message>>

Unauthorized == ErrorBody("UNAUTHORIZED", <<"Authentication required">>)
Forbidden == ErrorBody("FORBIDDEN", <<"Admin access required">>)
NotFound(userId) == ErrorBody("NOT_FOUND", <<"User not found: ", userId>>)

\* variant: the target user is looked up before the actor is checked
AdminUserOnRequestLookupFirst(inline, ok) ==
  LET requestContext == req.context
      userId == req.target
  IN
  /\ req.pc = "handler"
  /\ req.route = (IF inline THEN PatchAdminUserInline ELSE PatchAdminUser)
  /\ resp' = IF userId \notin DOMAIN users
             THEN [Response(404, TRUE) EXCEPT !.body = NotFound(userId)]
             ELSE IF ~requestContext.isAuthenticated \/ requestContext.user = NoUser
             THEN [Response(401, TRUE) EXCEPT !.body = Unauthorized]
             ELSE IF ~requestContext.user.is_admin
             THEN [Response(403, TRUE) EXCEPT !.body = Forbidden]
             ELSE Response(500, TRUE)
  /\ req' = NoRequest
  /\ UNCHANGED <<users, sessions, env, issued, cloud, poc>>
  /\ UNCHANGED <<rlvars, csvars>>

(***************************************************************************)
(* onRequest of PATCH /api/admin/users/:id: functions/api/user.ts lines    *)
(* 118-279, and its inline variant, lines 356-525, which looks at the      *)
(* method before the id; ok = FALSE when D1 raises                         *)
(***************************************************************************)
AdminUserOnRequest(inline, ok) ==
  LET requestContext == req.context
      userId == req.target
      badId == userId = "[id]"
      badMethod == req.method # "PATCH"
  IN
  /\ req.pc = "handler"
  /\ req.route = (IF inline THEN PatchAdminUserInline ELSE PatchAdminUser)
  /\ IF ~requestContext.isAuthenticated \/ requestContext.user = NoUser
     THEN /\ resp' = [Response(401, FALSE) EXCEPT !.body = Unauthorized]
          /\ UNCHANGED users
     ELSE IF ~requestContext.user.is_admin
     THEN /\ resp' = [Response(403, FALSE) EXCEPT !.body = Forbidden]
          /\ UNCHANGED users
     ELSE IF badId \/ badMethod
     THEN /\ resp' = Response(IF badMethod /\ (inline \/ ~badId) THEN 405 ELSE 400,
                              FALSE)
          /\ UNCHANGED users
     ELSE IF req.body = Undefined
     THEN resp' = Response(400, FALSE) /\ UNCHANGED users
     ELSE IF ~ok
     THEN resp' = Response(500, TRUE) /\ UNCHANGED users
     ELSE IF userId \notin DOMAIN users
     THEN /\ resp' = [Response(404, TRUE) EXCEPT !.body = NotFound(userId)]
          /\ UNCHANGED users
     ELSE /\ users' = SetAdmin(users, userId, req.body = "true")
          /\ resp' = Response(200, TRUE)
  /\ req' = NoRequest
  /\ UNCHANGED <<sessions, env, issued, cloud, poc>>
  /\ UNCHANGED <<rlvars, csvars>>

(***************************************************************************)
(* onRequest of POST /api/auth/logout, functions/api/auth/logout.ts lines  *)
(* 22-101; ok = FALSE when kv.delete raises                                *)
(***************************************************************************)
LogoutOnRequest(ok) ==
  LET sessionId == extractSessionIdFromCookies(req.cookie) IN
  /\ req.pc = "handler" /\ req.route = PostLogout
  /\ IF req.method # "POST"
     THEN /\ resp' = [Response(405, FALSE) EXCEPT !.sessionId = sessionId]
          /\ UNCHANGED <<sessions, issued>>
     ELSE /\ sessions' = IF sessionId # Undefined THEN deleteSession(sessionId, ok)
                         ELSE sessions
          /\ issued' = IF sessionId # Undefined THEN NoteDelete(sessionId, ok)
                       ELSE issued
          /\ resp' = [Response(200, FALSE) EXCEPT !.sessionId = sessionId]
  /\ req' = NoRequest
  /\ UNCHANGED <<users, env, cloud, poc>>
  /\ UNCHANGED <<rlvars, csvars>>

(***************************************************************************)
(* onRequest of GET /api/auth/login, functions/api/auth/logout.ts lines    *)
(* 125-221: in POC mode a session of the POC user; ok = FALSE when kv.put  *)
(* raises                                                                  *)
(***************************************************************************)
LoginOnRequest(sessionId, ok) ==
  /\ req.pc = "handler" /\ req.route = GetLogin
  /\ isPOCMode(env) /\ ok => sessionId \notin DOMAIN issued
  /\ IF ~isPOCMode(env)
     THEN resp' = Response(400, FALSE) /\ UNCHANGED <<sessions, issued>>
     ELSE IF ~ok
     THEN resp' = Response(500, FALSE) /\ UNCHANGED <<sessions, issued>>
     ELSE /\ sessions' = SessionPut(sessionId, RawSession(POC_USER.id), SESSION_TTL)
          /\ issued' = Issue(sessionId, POC_USER.id)
          /\ resp' = [Response(200, FALSE) EXCEPT !.sessionId = sessionId]
  /\ req' = NoRequest
  /\ UNCHANGED <<users, env, cloud, poc>>
  /\ UNCHANGED <<rlvars, csvars>>

(***************************************************************************)
(* SpecRL: the calls are made one after another, by any caller, while the  *)
(* clock advances, the store answers or raises, and the settings change.   *)
(***************************************************************************)
NextRL ==
  \/ \E cl \in Callers, a \in Actions :
       /\ calls < MaxCalls
       /\ flight = EmptyBag
       /\ CheckLimitStart(cl[1], a, cl[2])
  \/ \E c \in BagToSet(flight), ok \in BOOLEAN : CheckLimitGet(c, ok)
  \/ \E c \in BagToSet(flight), ok \in BOOLEAN : CheckLimitPut(c, ok)
  \/ \E u \in Users, a \in Actions, ok \in BOOLEAN : ResetLimit(u, a, ok)
  \/ \E s \in SettingsInputs : UpdateSettings(s)
  \/ now < MaxRLTicks * TickMs /\ Tick

SpecRL == Init /\ [][NextRL]_vars

(***************************************************************************)
(* SpecReset: checkLimit calls made one after another against a store that *)
(* answers, with resetLimit at any moment.                                 *)
(***************************************************************************)
NextReset ==
  \/ \E cl \in Callers, a \in Actions :
       /\ calls < MaxResetCalls
       /\ flight = EmptyBag
       /\ CheckLimitStart(cl[1], a, cl[2])
  \/ \E c \in BagToSet(flight) : CheckLimitGet(c, TRUE)
  \/ \E c \in BagToSet(flight) : CheckLimitPut(c, TRUE)
  \/ \E u \in Users, a \in Actions, ok \in BOOLEAN : ResetLimit(u, a, ok)
  \/ Tick

SpecReset == Init /\ [][NextReset]_vars

(***************************************************************************)
(* SpecSeq: the calls are made one after another and the store answers     *)
(* every call.                                                             *)
(***************************************************************************)
NextSeq ==
  \/ \E cl \in Callers, a \in Actions :
       /\ calls < MaxSeqCalls
       /\ flight = EmptyBag
       /\ CheckLimitStart(cl[1], a, cl[2])
  \/ \E c \in BagToSet(flight) : CheckLimitGet(c, TRUE)
  \/ \E c \in BagToSet(flight) : CheckLimitPut(c, TRUE)
  \/ \E s \in SettingsInputs : UpdateSettings(s)
  \/ Tick

SpecSeq == Init /\ [][NextSeq]_vars

(***************************************************************************)
(* SpecConc: up to NumProcs concurrent calls of one identity on one        *)
(* action, the store answering every call.                                 *)
(***************************************************************************)
NextConc ==
  \/ /\ calls < MaxConcCalls
     /\ BagCardinality(flight) < NumProcs
     /\ CheckLimitStart("alice", "read", TRUE)
  \/ \E c \in BagToSet(flight) : CheckLimitGet(c, TRUE)
  \/ \E c \in BagToSet(flight) : CheckLimitPut(c, TRUE)
  \/ UpdateSettings([c \in {"authenticated"} |-> Cfg(2, 1)])
  \/ Tick

SpecConc == Init /\ [][NextConc]_vars

(***************************************************************************)
(* SpecCounter: the limiter is configured before its first call and the    *)
(* settings stay as they are; up to NumProcs concurrent checkLimit calls   *)
(* of one identity, with resetLimit at any moment, the store answering.    *)
(***************************************************************************)
NextCounter ==
  \/ \E s \in SettingsInputs :
       /\ calls = 0
       /\ UpdateSettings(s)
  \/ \E a \in Actions :
       /\ calls < MaxCounterCalls
       /\ BagCardinality(flight) < NumProcs
       /\ CheckLimitStart("alice", a, TRUE)
  \/ \E c \in BagToSet(flight) : CheckLimitGet(c, TRUE)
  \/ \E c \in BagToSet(flight) : CheckLimitPut(c, TRUE)
  \/ \E a \in Actions : ResetLimit("alice", a, TRUE)
  \/ Tick

SpecCounter == Init /\ [][NextCounter]_vars

(***************************************************************************)
(* SpecFrame: the limiter is configured before its first call; checkLimit  *)
(* calls made one after another against a store that answers or raises,    *)
(* while sessions are written to the same KV namespace and the clock       *)
(* advances.                                                               *)
(***************************************************************************)
NextFrame ==
  \/ \E s \in SettingsInputs :
       /\ calls = 0
       /\ UpdateSettings(s)
  \/ \E cl \in Callers, a \in Actions :
       /\ calls < MaxFrameCalls
       /\ flight = EmptyBag
       /\ CheckLimitStart(cl[1], a, cl[2])
  \/ \E c \in BagToSet(flight), ok \in BOOLEAN : CheckLimitGet(c, ok)
  \/ \E c \in BagToSet(flight), ok \in BOOLEAN : CheckLimitPut(c, ok)
  \/ \E u \in SessionUsers : createSession("s1", u)
  \/ Tick

SpecFrame == Init /\ [][NextFrame]_vars

(***************************************************************************)
(* SpecBatch: checkMultiple calls, one at a time, the store answering      *)
(* every call, while the clock advances and the settings change.           *)
(***************************************************************************)
BatchInputs == {<<"write">>, <<"read", "write">>, <<"read", "read">>}

NextBatch ==
  \/ \E cl \in Callers, actions \in BatchInputs :
       /\ calls + Len(actions) <= MaxBatchCalls
       /\ CheckMultipleStart(cl[1], actions, cl[2])
  \/ /\ CheckMultipleAtCall
     /\ CheckLimitStart(batch.userId, batch.actions[batch.i],
                        batch.isAuthenticated)
  \/ \E c \in BagToSet(flight) : CheckLimitGet(c, TRUE)
  \/ \E c \in BagToSet(flight) : CheckLimitPut(c, TRUE)
  \/ CheckMultipleCollect
  \/ CheckMultipleReturn
  \/ \E s \in SettingsInputs : UpdateSettings(s)
  \/ Tick

SpecBatch == Init /\ [][NextBatch]_vars

(***************************************************************************)
(* SpecTree: discussions are opened, comments and replies are written and  *)
(* soft-deleted by their author, one operation at a time, while the        *)
(* store's clock advances.                                                 *)
(***************************************************************************)
NextTree ==
  \/ \E d \in DiscussionIds, t \in TitleInputs, u \in Owners :
       CreateDiscussion(d, t, u)
  \/ \E d \in DiscussionIds, u \in Authors, p \in 0..MaxComments :
       Len(comments) < MaxComments /\ CreateComment(d, u, 1, p)
  \/ \E c \in 1..MaxComments, u \in Authors : SoftDeleteComment(c, u)
  \/ ClockTick

SpecTree == Init /\ [][NextTree]_vars

(***************************************************************************)
(* SpecDelete: comments and replies are written and soft-deleted, once or  *)
(* again, by any user, while the store's clock advances.                   *)
(***************************************************************************)
NextDelete ==
  \/ \E d \in DiscussionIds, u \in Owners : CreateDiscussion(d, "title", u)
  \/ \E d \in DiscussionIds, u \in Authors, p \in 0..MaxDeleteComments :
       Len(comments) < MaxDeleteComments /\ CreateComment(d, u, 1, p)
  \/ \E c \in 1..MaxDeleteComments, u \in StoreUsers : SoftDeleteComment(c, u)
  \/ ClockTick

SpecDelete == Init /\ [][NextDelete]_vars

(***************************************************************************)
(* SpecEdit: the top-level comments of one discussion are written, edited  *)
(* by any user and soft-deleted by an admin, while the store's clock       *)
(* advances.                                                               *)
(***************************************************************************)
NextEdit ==
  \/ \E u \in Owners : CreateDiscussion("d1", "title", u)
  \/ \E u \in Authors :
       Len(comments) < MaxEditComments /\ CreateComment("d1", u, 1, NULL)
  \/ \E c \in 1..MaxEditComments, u \in StoreUsers, n \in EditInputs :
       EditComment(c, u, n)
  \/ \E c \in 1..MaxEditComments : SoftDeleteComment(c, "admin")
  \/ ClockTick

SpecEdit == Init /\ [][NextEdit]_vars

(***************************************************************************)
(* SpecRef: comments are written with any content under any parent, in     *)
(* discussions that may be missing or soft-deleted.                        *)
(***************************************************************************)
NextRef ==
  \/ \E d \in DiscussionIds, u \in Owners : CreateDiscussion(d, "title", u)
  \/ \E d \in DiscussionIds, u \in Authors, n \in ContentInputs,
        p \in 0..MaxRefComments :
       Len(comments) < MaxRefComments /\ CreateComment(d, u, n, p)
  \/ \E c \in 1..MaxRefComments : SoftDeleteComment(c, "admin")
  \/ \E d \in DiscussionIds, u \in StoreUsers : SoftDeleteDiscussion(d, u)

SpecRef == Init /\ [][NextRef]_vars

(***************************************************************************)
(* SpecRace: CreateComment calls run as a check and a later insert, up to  *)
(* NumProcs of them at a time, interleaved with each other and with the    *)
(* soft deletes of discussions and comments.                               *)
(***************************************************************************)
NextRace ==
  \/ \E d \in DiscussionIds, u \in Owners : CreateDiscussion(d, "title", u)
  \/ \E d \in DiscussionIds, u \in Authors, p \in 0..MaxRaceComments :
       /\ Len(comments) + Cardinality(pending) < MaxRaceComments
       /\ Cardinality(pending) < NumProcs
       /\ CreateCommentCheck(d, u, 1, p)
  \/ \E call \in pending : CreateCommentInsert(call)
  \/ \E c \in 1..MaxRaceComments : SoftDeleteComment(c, "admin")
  \/ \E d \in DiscussionIds : SoftDeleteDiscussion(d, "admin")

SpecRace == Init /\ [][NextRace]_vars

(***************************************************************************)
(* SpecUsers: the calls of src/lib/db.ts on the users table, while the      *)
(* users of the table open discussions and write comments.                 *)
(***************************************************************************)
NextUsers ==
  \/ \E u \in ContentUsers \cap DOMAIN users : CreateDiscussion("d1", "title", u)
  \/ \E u \in ContentUsers \cap DOMAIN users :
       /\ Len(comments) < MaxUserComments
       /\ CreateComment("d1", u, 1, NULL)
  \/ \E user \in UserInputs : initUser(user)
  \/ \E user \in UserInputs : createUser(user)
  \/ createOrGetPOCUser
  \/ \E id \in LookupIds : getUserById(id)
  \/ \E id \in LookupIds : getUserByUsername(id)
  \/ getAllUsers
  \/ \E id \in LookupIds, isAdmin \in BOOLEAN : updateUserAdminStatus(id, isAdmin)
  \/ \E id \in StoreUsers : deleteUser(id)

SpecUsers == Init /\ [][NextUsers]_vars

(***************************************************************************)
(* SpecAuth: requests served one at a time by the middleware and a handler, *)
(* while sessions are created and the environment is redeployed.           *)
(***************************************************************************)
NextAuth ==
  \/ \E v \in AuthEnabledInputs : Deploy(v)
  \/ \E sid \in SessionIds, u \in SessionUsers : createSession(sid, u)
  \/ \E sid \in SessionIds, u \in SessionUsers : createSessionWip(sid, u)
  \/ \E r \in RequestInputs, ok \in BOOLEAN : onRequest(r, ok)
  \/ \E ok \in BOOLEAN : AdminUsersOnRequest(ok)
  \/ \E inline \in BOOLEAN, ok \in BOOLEAN : AdminUserOnRequest(inline, ok)
  \/ \E ok \in BOOLEAN : LogoutOnRequest(ok)
  \/ \E sid \in SessionIds, ok \in BOOLEAN : LoginOnRequest(sid, ok)

SpecAuth == Init /\ [][NextAuth]_vars

(***************************************************************************)
(* The health endpoint, functions/api/health.ts, and its variant that      *)
(* reads the environment from context.env                                  *)
(***************************************************************************)
\* what the stores do to the calls of one health check
DbInputs == {"row", "null", "raise"}
PutInputs == {"ok", "raise"}
GetInputs == {"stored", "null", "raise"}
DeleteInputs == {"ok", "raise"}

\* health.ts line 60
HealthKey == <<"health_check", now>>

\* lines 50-56: dbHealthy
DbHealthy(db) == db = "row"

\* lines 59-68: kvHealthy; a put, get or delete that raises ends in the catch
KvHealthy(put, get, del) ==
  /\ put = "ok"
  /\ get = "stored" /\ KVPut(HealthKey, "ok", 10)[HealthKey].val = "ok"
  /\ del = "ok"

\* lines 70-75
HealthStatus(dbHealthy, kvHealthy) ==
  IF dbHealthy /\ kvHealthy THEN "ok"
  ELSE IF dbHealthy \/ kvHealthy THEN "degraded"
  ELSE "down"

\* line 88
HealthStatusCode(status) ==
  IF status = "ok" THEN 200 ELSE IF status = "degraded" THEN 503 ELSE 503

\* the test key after the KV check: written unless the put raised, removed when
\* the delete was reached and did not raise
KvAfterHealth(put, get, del) ==
  IF put = "raise" THEN kv
  ELSE IF get = "raise" \/ del = "raise" THEN KVPut(HealthKey, "ok", 10)
  ELSE kv

HealthResponse(impl, db, put, get, del) ==
  [op |-> "health", impl |-> impl, thrown |-> FALSE,
   status |-> HealthStatus(DbHealthy(db), KvHealthy(put, get, del)),
   statusCode |-> HealthStatusCode(HealthStatus(DbHealthy(db), KvHealthy(put, get, del))),
   \* observed: what the stores did
   db |-> db, put |-> put, get |-> get, del |-> del]

(***************************************************************************)
(* onRequest of functions/api/health.ts, lines 29-97. Line 41 reads        *)
(* process.env.ENVIRONMENT outside any try: where the runtime has no       *)
(* process global (hasProcess = FALSE) the read raises a ReferenceError    *)
(* and the handler throws before it checks a store.                        *)
(***************************************************************************)
HealthOnRequest(hasProcess, db, put, get, del) ==
  /\ req = NoRequest
  /\ IF ~hasProcess
     THEN /\ resp' = [op |-> "health", impl |-> "health.ts", thrown |-> TRUE,
                      status |-> Undefined, statusCode |-> 0,
                      db |-> db, put |-> put, get |-> get, del |-> del]
          /\ UNCHANGED kv
     ELSE /\ resp' = HealthResponse("health.ts", db, put, get, del)
          /\ kv' = KvAfterHealth(put, get, del)
  /\ UNCHANGED <<now, answered, settings, flight, last, calls, peak, hist, batch>>
  /\ UNCHANGED <<users, sessions, env, req, issued, cloud, poc>>
  /\ UNCHANGED csvars

(***************************************************************************)
(* onRequest of the variant, unnamed/part_008 lines 30-101: the            *)
(* environment is context.env.ENV                                          *)
(***************************************************************************)
HealthOnRequestEnv(db, put, get, del) ==
  /\ req = NoRequest
  /\ resp' = HealthResponse("part_008", db, put, get, del)
  /\ kv' = KvAfterHealth(put, get, del)
  /\ UNCHANGED <<now, answered, settings, flight, last, calls, peak, hist, batch>>
  /\ UNCHANGED <<users, sessions, env, req, issued, cloud, poc>>
  /\ UNCHANGED csvars

(***************************************************************************)
(* SpecHealth: health checks one after another while the clock advances    *)
(* and the stores answer or raise.                                         *)
(***************************************************************************)
NextHealth ==
  \/ \E hasProcess \in BOOLEAN, db \in DbInputs, put \in PutInputs,
        get \in GetInputs, del \in DeleteInputs :
          HealthOnRequest(hasProcess, db, put, get, del)
  \/ \E db \in DbInputs, put \in PutInputs, get \in GetInputs,
        del \in DeleteInputs : HealthOnRequestEnv(db, put, get, del)
  \/ Tick

SpecHealth == Init /\ [][NextHealth]_vars

(***************************************************************************)
(* The setup script, scripts/setup.ts. A wrangler command either succeeds  *)
(* ("ok") or fails ("raise"); the account decides what a command can do:   *)
(* a database name is created once, a statement on a table needs the table *)
(***************************************************************************)
CommandInputs == {"ok", "raise"}
FileInputs == {"present", "missing"}

\* createDatabase, lines 179-207: the database number after the call, and
\* whether the call threw
createDatabase(list, create) ==
  LET listed == list = "ok" /\ cloud.d1 > 0
      created == ~listed /\ create = "ok" /\ cloud.d1 = 0
  IN [d1 |-> IF created THEN cloud.d1 + 1 ELSE cloud.d1,
      thrown |-> ~listed /\ ~created]

\* runMigrations, lines 211-264: the check command counts as "schema exists"
\* whenever it exits without error, and an error of the migration command is
\* logged as success
runMigrations(d1, file, check, migrate) ==
  LET skipped == check = "ok" /\ d1 > 0
      applied == file = "present" /\ ~skipped /\ migrate = "ok" /\ d1 > 0
  IN [tables |-> cloud.tables \/ applied,
      migrations |-> cloud.migrations + (IF applied THEN 1 ELSE 0),
      thrown |-> file = "missing"]

\* seedPOCUser, lines 336-368: INSERT ... ON CONFLICT(username) DO NOTHING; an
\* error of the command is logged as a warning
seedPOCUser(tables, seed) ==
  IF seed = "ok" /\ tables /\ cloud.pocUsers = 0 THEN 1 ELSE cloud.pocUsers

\* createKVNamespace, createR2Bucket, createPagesProject, lines 267-333: an
\* error is logged as a warning
createOthers(others) ==
  IF others = "ok" THEN {"kv", "r2", "pages"} ELSE cloud.others

(***************************************************************************)
(* main of setup.ts, lines 404-446: one run of the script                  *)
(***************************************************************************)
SetupMain(list, create, file, check, migrate, others, seed) ==
  LET db == createDatabase(list, create)
      mig == runMigrations(db.d1, file, check, migrate)
      thrown == db.thrown \/ mig.thrown
  IN
  /\ req = NoRequest
  /\ cloud.pc = "idle"
  /\ cloud.runs < MaxSetupRuns
  /\ cloud' =
       IF db.thrown THEN [cloud EXCEPT !.d1 = db.d1, !.runs = @ + 1]
       ELSE IF mig.thrown THEN [cloud EXCEPT !.d1 = db.d1, !.runs = @ + 1]
       ELSE [cloud EXCEPT !.d1 = db.d1, !.tables = mig.tables,
                          !.migrations = mig.migrations,
                          !.others = createOthers(others),
                          !.pocUsers = seedPOCUser(mig.tables, seed),
                          !.runs = @ + 1, !.finished = TRUE]
  /\ resp' = [op |-> "setup", exit |-> IF thrown THEN 1 ELSE 0,
              \* observed: the account before the run
              rerun |-> cloud.finished,
              before |-> [d1 |-> cloud.d1, migrations |-> cloud.migrations,
                          pocUsers |-> cloud.pocUsers]]
  /\ UNCHANGED <<users, sessions, env, req, issued, poc>>
  /\ UNCHANGED <<rlvars, csvars>>

(***************************************************************************)
(* The teardown script, unnamed/part_002                                   *)
(***************************************************************************)
\* what the user types at a prompt
AnswerInputs == {"yes", "Y", "no"}

\* answer.toLowerCase(), line 82
ToLowerCase(answer) ==
  IF answer = "YES" THEN "yes" ELSE IF answer = "Y" THEN "y" ELSE answer

\* askConfirmation, lines 73-85
askConfirmation(answer) ==
  ToLowerCase(answer) = "yes" \/ ToLowerCase(answer) = "y"

\* the answers of the run so far, with the answer to one more prompt
Answered(prompt, answer) ==
  [x \in DOMAIN cloud.answers \cup {prompt} |->
     IF x = prompt THEN answer ELSE cloud.answers[x]]

\* the account after 'wrangler ... delete' of a resource: the command line
\* ends in '|| true', a delete that fails changes nothing and raises nothing
Deleted(resource, outcome) ==
  IF outcome = "raise" THEN cloud
  ELSE IF resource = "d1"
  THEN [cloud EXCEPT !.d1 = 0, !.tables = FALSE, !.migrations = 0, !.pocUsers = 0]
  ELSE [cloud EXCEPT !.others = @ \ {resource}]

\* one of the four delete functions: the prompt of the resource, then the
\* delete command when the answer confirms
DeleteStep(resource, next, answer, outcome) ==
  /\ cloud.pc = resource
  /\ cloud' = IF askConfirmation(answer)
              THEN [Deleted(resource, outcome) EXCEPT
                      !.pc = next,
                      !.answers = Answered(resource, answer),
                      !.commands = @ \cup {resource}]
              ELSE [cloud EXCEPT !.pc = next,
                                 !.answers = Answered(resource, answer)]

(***************************************************************************)
(* main, lines 170-194, up to the first prompt of a resource: the initial  *)
(* prompt; process.exit(0) when the answer does not confirm                *)
(***************************************************************************)
TeardownMain(answer) ==
  /\ req = NoRequest
  /\ cloud.pc = "idle"
  /\ cloud' = [cloud EXCEPT !.pc = IF askConfirmation(answer) THEN "d1" ELSE "idle",
                            !.answers = [x \in {"initial"} |-> answer],
                            !.commands = {}]
  /\ resp' = IF askConfirmation(answer) THEN [op |-> "teardown", exit |-> -1]
             ELSE [op |-> "teardown", exit |-> 0]
  /\ UNCHANGED <<users, sessions, env, req, issued, poc>>
  /\ UNCHANGED <<rlvars, csvars>>

\* variant: the database is deleted without its own prompt being honoured
deleteDatabaseUnasked(answer, outcome) ==
  /\ cloud.pc = "d1"
  /\ cloud' = [Deleted("d1", outcome) EXCEPT
                 !.pc = "kv",
                 !.answers = Answered("d1", answer),
                 !.commands = @ \cup {"d1"}]
  /\ UNCHANGED <<users, sessions, env, req, resp, issued, poc>>
  /\ UNCHANGED <<rlvars, csvars>>

\* deleteDatabase, lines 87-102
deleteDatabase(answer, outcome) ==
  /\ DeleteStep("d1", "kv", answer, outcome)
  /\ UNCHANGED <<users, sessions, env, req, resp, issued, poc>>
  /\ UNCHANGED <<rlvars, csvars>>

\* deleteKVNamespace, lines 104-119
deleteKVNamespace(answer, outcome) ==
  /\ DeleteStep("kv", "r2", answer, outcome)
  /\ UNCHANGED <<users, sessions, env, req, resp, issued, poc>>
  /\ UNCHANGED <<rlvars, csvars>>

\* deleteR2Bucket, lines 121-136
deleteR2Bucket(answer, outcome) ==
  /\ DeleteStep("r2", "pages", answer, outcome)
  /\ UNCHANGED <<users, sessions, env, req, resp, issued, poc>>
  /\ UNCHANGED <<rlvars, csvars>>

\* deletePagesProject, lines 138-153, and the end of main: generateSummary
deletePagesProject(answer, outcome) ==
  /\ DeleteStep("pages", "idle", answer, outcome)
  /\ resp' = [op |-> "teardown", exit |-> 0]
  /\ UNCHANGED <<users, sessions, env, req, issued, poc>>
  /\ UNCHANGED <<rlvars, csvars>>

(***************************************************************************)
(* SpecTeardown: teardown runs, one at a time, on a fresh account or on    *)
(* one that setup has filled, the user typing an answer at every prompt.   *)
(***************************************************************************)
NextTeardown ==
  \/ /\ cloud.runs = 0
     /\ SetupMain("ok", "ok", "present", "raise", "ok", "ok", "ok")
  \/ \E answer \in AnswerInputs : TeardownMain(answer)
  \/ \E answer \in AnswerInputs, outcome \in CommandInputs :
       deleteDatabase(answer, outcome)
  \/ \E answer \in AnswerInputs, outcome \in CommandInputs :
       deleteKVNamespace(answer, outcome)
  \/ \E answer \in AnswerInputs, outcome \in CommandInputs :
       deleteR2Bucket(answer, outcome)
  \/ \E answer \in AnswerInputs, outcome \in CommandInputs :
       deletePagesProject(answer, outcome)

SpecTeardown == Init /\ [][NextTeardown]_vars

(***************************************************************************)
(* SpecSetup: setup runs one after another on an account that starts fresh *)
(***************************************************************************)
NextSetup ==
  \E list \in CommandInputs, create \in CommandInputs, file \in FileInputs,
     check \in CommandInputs, migrate \in CommandInputs,
     others \in CommandInputs, seed \in CommandInputs :
       SetupMain(list, create, file, check, migrate, others, seed)

SpecSetup == Init /\ [][NextSetup]_vars

(***************************************************************************)
(* SpecValidate: sessions are created and validated, by direct calls of    *)
(* session.ts and by the middleware on requests, while the KV store and    *)
(* the user lookup answer or raise.                                        *)
(***************************************************************************)
ValidateRequests ==
  {Request(GetAdminUsers, "GET", c, Undefined, Undefined) : c \in CookieInputs}

NextValidate ==
  \/ \E v \in AuthEnabledInputs : Deploy(v)
  \/ \E sid \in SessionIds, u \in SessionUsers : createSession(sid, u)
  \/ \E sid \in SessionIds, u \in SessionUsers : createSessionWip(sid, u)
  \/ \E sid \in SessionIds, ok \in BOOLEAN : getSessionUserId(sid, ok)
  \/ \E sid \in SessionIds, ok \in BOOLEAN, getUser \in CommandInputs :
       validateSession(sid, ok, getUser)
  \/ \E r \in ValidateRequests, ok \in BOOLEAN : onRequest(r, ok)
  \/ \E ok \in BOOLEAN : AdminUsersOnRequest(ok)

SpecValidate == Init /\ [][NextValidate]_vars

(***************************************************************************)
(* SpecPOC: up to MaxPocCalls concurrent createOrGetPOCUser calls on a     *)
(* table without the POC user, D1 answering or raising.                    *)
(***************************************************************************)
NextPOC ==
  \/ \E i \in 1..MaxPocCalls : createOrGetPOCUserStart(i)
  \/ \E i \in 1..MaxPocCalls, ok \in BOOLEAN : createOrGetPOCUserGet(i, ok)
  \/ \E i \in 1..MaxPocCalls, ok \in BOOLEAN : createOrGetPOCUserInsert(i, ok)

SpecPOC == Init /\ [][NextPOC]_vars

(***************************************************************************)
(* SpecSession: sessions are created, resolved and deleted by direct calls *)
(* of session.ts while the days pass.                                      *)
(***************************************************************************)
NextSession ==
  \/ \E sid \in SessionIds, u \in ContentUsers : createSession(sid, u)
  \/ \E sid \in SessionIds, ok \in BOOLEAN : getSessionUserId(sid, ok)
  \/ \E sid \in SessionIds, ok \in BOOLEAN : DeleteSession(sid, ok)
  \/ DayTick

SpecSession == Init /\ [][NextSession]_vars

(***************************************************************************)
(* Properties of the rate limiter                                          *)
(***************************************************************************)
Min(a, b) == IF a <= b THEN a ELSE b

\* a window of one identity and action whose calls all used the same bucket
\* limit N >= 1, were answered by the store within the window, with no reset
Steady(hk) == hist[hk].pure /\ hist[hk].maxRequests >= 1

\* C1: when the calls of one identity and action are made one after another
\* and the store works, then in every 60-second-aligned window exactly the
\* first N calls are allowed and every further call is denied: after any
\* number of returned calls the admitted ones number min(returned, N); the
\* count starts afresh in the next window.
SequentialWindowLimit ==
  \A hk \in DOMAIN hist :
    (Steady(hk) /\ hist[hk].seq /\ ~ \E c \in BagToSet(flight) : HKey(c) = hk)
      => hist[hk].admitted = Min(hist[hk].completed, hist[hk].maxRequests)

\* the window of a bucket of N = 1 saw two calls, the first allowed and the
\* second denied, and the first call of the next window was allowed
SequentialWindowLimitWitness ==
  /\ flight = EmptyBag
  /\ \E hk \in DOMAIN hist :
       LET nx == <<hk[1], hk[2], hk[3] + windowMs>> IN
       /\ Steady(hk) /\ hist[hk].seq
       /\ hist[hk].completed = hist[hk].maxRequests + 1
       /\ hist[hk].admitted = hist[hk].maxRequests
       /\ nx \in DOMAIN hist
       /\ Steady(nx) /\ hist[nx].seq
       /\ hist[nx].completed = 1 /\ hist[nx].admitted = 1
       /\ last.kind = "checkLimit" /\ last.result.allowed
       /\ last.windowStart = nx[3]

\* the bucket of the returned call is the anonymous-write bucket at 0
AnonymousWriteAtZero(r) ==
  r.kind = "checkLimit" /\ ~r.isAuthenticated /\ r.action = "write"
    /\ r.maxRequests = 0

\* C2 as stated: while every call to the counter store raises, every
\* checkLimit call returns allowed = true, for every identity, action and
\* value of isAuthenticated.
FailOpenForEveryCall ==
  (~answered /\ last.kind = "checkLimit") => last.result.allowed

\* C2, amended: while every call to the counter store raises, checkLimit
\* returns allowed = true for every call except an anonymous write made while
\* the anonymous-write bucket is at maxRequests = 0.
FailOpenUnlessAnonymousWriteAtZero ==
  (~answered /\ last.kind = "checkLimit" /\ ~AnonymousWriteAtZero(last))
    => last.result.allowed

\* the store has raised on every call, and a write came back allowed from the
\* catch block
FailOpenWitness ==
  /\ ~answered
  /\ last.kind = "checkLimit" /\ last.path = "catch"
  /\ last.action = "write" /\ last.result.allowed
  /\ calls = MaxCalls

\* C3: with the anonymous-write bucket at maxRequests = 0, every anonymous
\* write is denied, whatever calls came before and whether the store answers
\* or raises.
AnonymousWriteAlwaysDenied ==
  AnonymousWriteAtZero(last) => ~last.result.allowed

\* an anonymous write was denied after earlier calls, with a counter stored
AnonymousWriteDeniedWitness ==
  /\ AnonymousWriteAtZero(last) /\ ~last.result.allowed
  /\ calls = MaxCalls
  /\ DOMAIN kv # {}

\* C4: the decision of a call rests on the count it read alone: a call that
\* read a count below maxRequests is allowed whatever the counter holds when
\* its put resolves, so two overlapping calls that both read maxRequests - 1
\* are both allowed.
OverlappingCallsBothAllowed ==
  (last.kind = "checkLimit" /\ last.path = "ok")
    => (last.result.allowed <=> last.count < last.maxRequests)

\* two calls that both read maxRequests - 1 were both allowed: the window
\* admitted maxRequests + 1 calls
OvershootWitness ==
  /\ last.kind = "checkLimit" /\ last.path = "ok" /\ last.result.allowed
  /\ last.count = last.maxRequests - 1
  /\ \E hk \in DOMAIN hist :
       /\ Steady(hk) /\ hk = HKey(last)
       /\ hist[hk].stale = 1
       /\ hist[hk].completed = hist[hk].maxRequests + 1
       /\ hist[hk].admitted = hist[hk].maxRequests + 1

\* C5 as stated: the admitted calls of a window exceed maxRequests by at most
\* the largest number of calls that were in flight at the same moment.
OvershootBoundedByConcurrency ==
  \A hk \in DOMAIN hist :
    Steady(hk) => hist[hk].admitted <= hist[hk].maxRequests + peak

\* C5, amended: the admitted calls of a window number at most
\* maxRequests * (1 + s), where s counts the admitted calls whose put
\* replaced a counter value other than the one they had read.
OvershootBoundedByLostUpdates ==
  \A hk \in DOMAIN hist :
    Steady(hk) =>
      hist[hk].admitted <= hist[hk].maxRequests * (1 + hist[hk].stale)

\* one lost update let the window admit twice maxRequests
OvershootBoundWitness ==
  \E hk \in DOMAIN hist :
    /\ Steady(hk)
    /\ hist[hk].stale = 1
    /\ hist[hk].admitted = 2 * hist[hk].maxRequests


(***************************************************************************)
(* Properties of the comment tree store                                    *)
(***************************************************************************)
\* the permission the claims speak of: the comment's author, or an admin
AuthorOrAdmin(actor, row) == actor = row.author_id \/ actor = "admin"

\* the ids of a forest, depth first
RECURSIVE FlattenIds(_)
FlattenIds(forest) ==
  IF forest = <<>> THEN <<>>
  ELSE <<forest[1].id>> \o FlattenIds(forest[1].children)
                        \o FlattenIds(Tail(forest))

Occurrences(ids, id) == Cardinality({i \in 1..Len(ids) : ids[i] = id})

\* every node of a forest, at any depth
RECURSIVE NodesOf(_)
NodesOf(forest) ==
  IF forest = <<>> THEN {}
  ELSE {forest[1]} \cup NodesOf(forest[1].children) \cup NodesOf(Tail(forest))

\* siblings by created_at ascending, equal timestamps by insertion order
SiblingsOrdered(nodes) ==
  \A i \in 1..(Len(nodes) - 1) :
    \/ nodes[i].created_at < nodes[i + 1].created_at
    \/ /\ nodes[i].created_at = nodes[i + 1].created_at
       /\ nodes[i].id < nodes[i + 1].id

AllLevelsOrdered(forest) ==
  /\ SiblingsOrdered(forest)
  /\ \A n \in NodesOf(forest) : SiblingsOrdered(n.children)

\* the comments above comment c, following parent_comment_id
RECURSIVE Ancestors(_)
Ancestors(c) ==
  IF comments[c].parent_comment_id = NULL THEN {}
  ELSE {comments[c].parent_comment_id} \cup Ancestors(comments[c].parent_comment_id)

LiveBelow(c) ==
  \E j \in 1..Len(comments) : Live(comments[j]) /\ c \in Ancestors(j)

\* C6: after a successful CreateComment, the listing of the comment's
\* discussion holds the new comment exactly once, as a root when it has no
\* parent and among the children of its parent otherwise, and the siblings
\* at every level are in created_at order, equal timestamps in insertion
\* order.
CreatedCommentListedInPlace ==
  (res.op = "CreateComment" /\ res.status = "ok") =>
    LET row == comments[res.id]
        tree == ListTopLevelTree(row.discussion_id)
    IN /\ Occurrences(FlattenIds(tree), row.id) = 1
       /\ IF row.parent_comment_id = NULL
          THEN \E i \in DOMAIN tree : tree[i].id = row.id
          ELSE \E n \in NodesOf(tree) :
                 /\ n.id = row.parent_comment_id
                 /\ \E i \in DOMAIN n.children : n.children[i].id = row.id
       /\ AllLevelsOrdered(tree)

\* a reply has just been written next to a sibling of the same timestamp
CreatedCommentListedWitness ==
  /\ res.op = "CreateComment" /\ res.status = "ok"
  /\ comments[res.id].parent_comment_id # NULL
  /\ \E j \in 1..Len(comments) :
       /\ j # res.id
       /\ Live(comments[j])
       /\ comments[j].parent_comment_id = comments[res.id].parent_comment_id
       /\ comments[j].created_at = comments[res.id].created_at
  /\ \E j \in 1..Len(comments) :
       comments[j].created_at < comments[res.id].created_at

\* C7: in the listing of every live discussion, a soft-deleted comment
\* appears, as a tombstone, exactly when a live comment lies below it, every
\* live comment appears, each node is listed under its parent, and a
\* soft-deleted comment with nothing live below it is absent.
TombstoneIffLiveDescendant ==
  \A d \in DiscussionIds :
    LiveDiscussion(d) =>
      LET tree == ListTopLevelTree(d)
          ids == FlattenIds(tree)
      IN /\ \A c \in 1..Len(comments) :
              Occurrences(ids, c) =
                IF /\ comments[c].discussion_id = d
                   /\ (Live(comments[c]) \/ LiveBelow(c))
                THEN 1 ELSE 0
         /\ \A i \in DOMAIN tree : comments[tree[i].id].parent_comment_id = NULL
         /\ \A n \in NodesOf(tree) :
              /\ n.tombstone = ~Live(comments[n.id])
              /\ \A i \in DOMAIN n.children :
                   comments[n.children[i].id].parent_comment_id = n.id

\* a comment has just been soft-deleted above a soft-deleted child that has
\* a live child of its own, and is listed as a tombstone over that chain
TombstoneWitness ==
  /\ res.op = "SoftDeleteComment" /\ res.status = "ok" /\ res.was = NULL
  /\ \E c, g \in 1..Len(comments) :
       /\ comments[c].parent_comment_id = res.id
       /\ ~Live(comments[c])
       /\ comments[g].parent_comment_id = c
       /\ Live(comments[g])
       /\ LET tree == ListTopLevelTree(comments[res.id].discussion_id)
          IN /\ Len(tree) = 1
             /\ tree[1].id = res.id /\ tree[1].tombstone
             /\ Len(tree[1].children) = 1
             /\ tree[1].children[1].tombstone
             /\ Len(tree[1].children[1].children) = 1
             /\ tree[1].children[1].children[1].id = g

\* C8: SoftDeleteComment of an already soft-deleted comment by its author or
\* an admin succeeds and leaves every row of the store as it was, deleted_at
\* of that comment included.
SecondSoftDeleteChangesNothing ==
  [][(/\ res'.op = "SoftDeleteComment"
      /\ Exists(res'.id)
      /\ ~Live(comments[res'.id])
      /\ AuthorOrAdmin(res'.actor, comments[res'.id]))
     => (/\ res'.status = "ok"
         /\ comments' = comments
         /\ discussions' = discussions)]_vars

\* a second soft delete has succeeded at a later time than the first
SecondSoftDeleteWitness ==
  /\ res.op = "SoftDeleteComment" /\ res.status = "ok"
  /\ res.was # NULL
  /\ res.was < ctime
  /\ comments[res.id].deleted_at = res.was

CrossDiscussionParentInvalidReference ==
  [][(/\ res'.op = "CreateComment"
      /\ ctime' = ctime
      /\ res'.cross)
     => (res'.status = "InvalidReference" /\ comments' = comments)]_vars

\* C10 as amended: a CreateComment whose parent is a comment of a different
\* discussion fails and inserts no row, and the failure is InvalidReference
\* when the discussion named is live and the content is valid.
CrossDiscussionParentRejected ==
  [][(/\ res'.op = "CreateComment"
      /\ ctime' = ctime
      /\ res'.cross)
     => (/\ res'.status \in {"InvalidReference", "NotFound", "ValidationError"}
         /\ res'.clean => res'.status = "InvalidReference"
         /\ comments' = comments)]_vars

\* a reply to a live comment of the other discussion, itself live, has just
\* been refused with InvalidReference
CrossDiscussionParentWitness ==
  /\ res.op = "CreateComment" /\ res.status = "InvalidReference"
  /\ res.cross /\ res.clean
  /\ \A d \in DiscussionIds : LiveDiscussion(d)
  /\ \E c \in 1..Len(comments) : Live(comments[c])


\* C11: the insert of a CreateComment call that passed its checks stores the
\* comment under the discussion it named, also when that discussion was
\* soft-deleted in between, and every listing returns comments of its own,
\* live discussion only: none of a soft-deleted discussion.
OrphanStoredNeverListed ==
  /\ (res.op = "CreateComment" /\ "step" \in DOMAIN res) =>
       /\ res.status = "ok"
       /\ Exists(res.id)
       /\ comments[res.id].discussion_id = res.d
       /\ Live(comments[res.id])
  /\ \A d \in DiscussionIds :
       LET ids == FlattenIds(ListTopLevelTree(d))
       IN \A i \in 1..Len(ids) :
            /\ Exists(ids[i])
            /\ comments[ids[i]].discussion_id = d
            /\ LiveDiscussion(d)

\* a comment has just been inserted under a discussion that was soft-deleted
\* after the call's checks, next to a comment written before the soft delete
OrphanStoredWitness ==
  /\ res.op = "CreateComment" /\ "step" \in DOMAIN res /\ res.status = "ok"
  /\ res.d \in DOMAIN discussions
  /\ ~Live(discussions[res.d])
  /\ \E c \in 1..Len(comments) :
       c # res.id /\ comments[c].discussion_id = res.d /\ Live(comments[c])
  /\ ListTopLevelTree(res.d) = <<>>


(***************************************************************************)
(* Further properties of the rate limiter                                  *)
(***************************************************************************)
\* C12: every result returned by checkLimit has resetTime = windowStart +
\* 60000, windowStart being the start of the minute-aligned window that
\* contains the time of the call.
ResetTimeIsWindowEnd ==
  last.kind = "checkLimit" =>
    last.result.resetTime = (last.now \div 60000) * 60000 + 60000


\* what one checkLimit call that read `count` returns, by the path it took
AsCheckLimit(o) ==
  /\ o.kind = "checkLimit"
  /\ IF o.path = "short"
     THEN ~o.isAuthenticated /\ o.action = "write" /\ ~o.result.allowed
     ELSE /\ o.path = "ok"
          /\ o.result.allowed = (o.count < o.maxRequests)
          /\ o.result.remaining =
               (IF o.maxRequests > o.count THEN o.maxRequests - o.count ELSE 0)

\* the last position of action a in the list
LastIndexOf(actions, a) ==
  CHOOSE i \in 1..Len(actions) :
    actions[i] = a /\ \A j \in (i + 1)..Len(actions) : actions[j] # a

\* C13: checkMultiple returns, for each listed action, the result of a
\* checkLimit call of its own on that action for the same identity, and
\* every allowed action of the batch has its counter incremented, whatever
\* the other actions of the batch were answered: while the window of the call
\* lasts, the counter holds the increment.
BatchOfIndependentChecks ==
  last.kind = "checkMultiple" =>
    /\ Len(last.log) = Len(last.actions)
    /\ DOMAIN last.results = {last.actions[i] : i \in 1..Len(last.actions)}
    /\ \A i \in 1..Len(last.actions) :
         LET o == last.log[i] IN
         /\ AsCheckLimit(o)
         /\ o.action = last.actions[i]
         /\ o.userId = last.userId
         /\ o.isAuthenticated = last.isAuthenticated
         /\ (/\ o.path = "ok" /\ o.result.allowed
             /\ now < (o.now \div 60000) * 60000 + 60000) =>
              LET key == <<"rate_limit", o.userId, o.action,
                           (o.now \div 60000) * 60000>>
              IN key \in DOMAIN kv /\ ParseInt(kv[key].val) >= o.count + 1
    /\ \A a \in DOMAIN last.results :
         last.results[a] = last.log[LastIndexOf(last.actions, a)].result

\* a batch has returned an allowed read and a denied write that was checked
\* by the counter, and the read's counter holds the increment
BatchWitness ==
  /\ last.kind = "checkMultiple"
  /\ last.actions = <<"read", "write">>
  /\ last.results["read"].allowed
  /\ ~last.results["write"].allowed
  /\ last.log[2].path = "ok"
  /\ \E k \in DOMAIN kv : k[3] = "read" /\ ParseInt(kv[k].val) >= 1

(***************************************************************************)
(* C14: resetLimit(identity, action) removes only the counter of            *)
(* (identity, action, current window): every other counter of the store is *)
(* unchanged, and the next checkLimit of that identity and action in the    *)
(* same window reads a count of 0.                                          *)
(***************************************************************************)
ResetKey(o) == <<"rate_limit", o.userId, o.action, o.windowStart>>

\* the checkLimit call c reads its counter in this step
ReadsCounter(c) ==
  /\ BagIn(c, flight) /\ c.pc = "get"
  /\ \/ last'.kind = "checkLimit" /\ last' # last /\ last'.path = "ok"
     \/ \E d \in BagToSet(flight') : d.pc = "put" /\ ~BagIn(d, flight)

CountRead(c) ==
  IF \E d \in BagToSet(flight') : d.pc = "put" /\ ~BagIn(d, flight)
  THEN (CHOOSE d \in BagToSet(flight') : d.pc = "put" /\ ~BagIn(d, flight)).count
  ELSE last'.count

ResetLimitRemovesOneCounter ==
  [][ /\ (last'.kind = "resetLimit" /\ (last' # last \/ kv' # kv)) =>
           IF last'.ok
           THEN /\ last'.windowStart = (now \div 60000) * 60000
                /\ DOMAIN kv' = DOMAIN kv \ {ResetKey(last')}
                /\ \A k \in DOMAIN kv' : kv'[k] = kv[k]
           ELSE kv' = kv
      /\ \A c \in BagToSet(flight) :
           (/\ last.kind = "resetLimit" /\ last.ok
            /\ ReadsCounter(c)
            /\ <<"rate_limit", c.userId, c.action, c.windowStart>> = ResetKey(last))
           => CountRead(c) = 0
    ]_vars

\* a counter that an admitted call had stored has been reset while the counter of
\* another action stays, and the next checkLimit of the identity and action has read 0
ResetLimitWitness ==
  /\ last.kind = "resetLimit" /\ last.ok
  /\ H(<<last.userId, last.action, last.windowStart>>).admitted >= 1
  /\ \E k \in DOMAIN kv : k[2] = last.userId /\ k[3] # last.action /\ kv[k].exp > now
  /\ \E c \in BagToSet(flight) :
       /\ c.pc = "put" /\ c.count = 0
       /\ <<"rate_limit", c.userId, c.action, c.windowStart>> = ResetKey(last)
(***************************************************************************)
(* Properties of the users table                                           *)
(***************************************************************************)
\* C15: the is_admin of a user that already exists changes only in a step of
\* updateUserAdminStatus: no step of initUser, createUser, createOrGetPOCUser
\* or of a lookup leaves an existing user with another is_admin.
IsAdminChangesOnlyByAdminUpdate ==
  [][ \A u \in DOMAIN users \cap DOMAIN users' :
        users'[u].is_admin # users[u].is_admin
          => resp'.op = "updateUserAdminStatus" ]_vars

\* the user is the creator of a discussion or the author of a comment
HasContent(id) ==
  \/ \E d \in DOMAIN discussions : discussions[d].created_by = id
  \/ \E i \in 1..Len(comments) : comments[i].author_id = id

\* C16: deleteUser of a user who created a discussion or wrote a comment is
\* rejected and leaves the users, discussions and comments tables as they were.
DeleteUserWithContentRejected ==
  [][ (/\ resp'.op = "deleteUser"
       /\ resp' # resp \/ users' # users
       /\ resp'.id \in DOMAIN users
       /\ HasContent(resp'.id))
      => /\ resp'.status = "error"
         /\ users' = users
         /\ discussions' = discussions
         /\ comments' = comments ]_vars

\* deleteUser was rejected for the author of a comment in a discussion that
\* another user opened, and the author is still in the table
DeleteUserWitness ==
  /\ resp.op = "deleteUser" /\ resp.status = "error"
  /\ resp.id \in DOMAIN users
  /\ \E i \in 1..Len(comments) :
       /\ comments[i].author_id = resp.id
       /\ discussions[comments[i].discussion_id].created_by # resp.id
(***************************************************************************)
(* Properties of the requests                                              *)
(***************************************************************************)
AdminEndpoints == {"GET /api/admin/users", "PATCH /api/admin/users/:id",
                   "PATCH /api/admin/users/:id (inline)"}

\* the handler of an admin endpoint answers in this step
AdminHandlerStep ==
  req.pc = "handler" /\ req.route \in AdminEndpoints /\ req'.pc = "none"

\* C17: the admin endpoints answer 401 to a request whose context is not
\* authenticated and 403 to an authenticated request whose user is not an admin,
\* and in both cases neither read nor write the users table.
AdminEndpointsRejectUntouched ==
  [][ AdminHandlerStep =>
        /\ ~req.context.isAuthenticated
             => resp'.status = 401 /\ ~resp'.dbRead /\ users' = users
        /\ (req.context.isAuthenticated /\ ~req.context.user.is_admin)
             => resp'.status = 403 /\ ~resp'.dbRead /\ users' = users ]_vars

\* a user with a session was answered 403 by PATCH /api/admin/users/:id for a
\* user of the table
AdminEndpointsWitness ==
  /\ resp.op = "PATCH /api/admin/users/:id" /\ resp.status = 403
  /\ resp.target \in DOMAIN users
  /\ ~resp.dbRead

\* C18: toggling is_admin affects permissions immediately: a request that a user
\* of the table makes with a valid session passes the admin check of the admin
\* endpoints exactly when the user's is_admin is true at that moment.
AdminCheckFollowsIsAdmin ==
  [][ (/\ AdminHandlerStep
       /\ req.context.isAuthenticated
       /\ req.context.sessionId # "undefined"
       /\ req.context.userId \in DOMAIN users)
      => (resp'.status \notin {401, 403}) = users[req.context.userId].is_admin ]_vars

\* C19: whenever AUTH_ENABLED is not set or is 'false', the middleware marks the
\* request as authenticated with the hardcoded admin user, without a session lookup.
POCModeAuthenticatesEveryRequest ==
  [][ (/\ req.pc = "none" /\ req'.pc = "handler"
       /\ env.AUTH_ENABLED \in {"undefined", "false"})
      => /\ req'.context.isAuthenticated
         /\ req'.context.user.id = "mahesh.local"
         /\ req'.context.user.is_admin
         /\ ~req'.lookup ]_vars

\* the session id a Cookie header carries
CarriedSession(cookie) ==
  IF \E i \in 1..Len(cookie) : cookie[i].name = "session_id"
  THEN cookie[CHOOSE i \in 1..Len(cookie) : cookie[i].name = "session_id"].value
  ELSE "undefined"

\* C20: when POST /api/auth/logout returns its success response to a request that
\* carries session id S, S is not in the KV store any more, and the next request
\* that carries S is not authenticated by a session.
LogoutClearsSession ==
  [][ /\ (/\ req.pc = "handler" /\ req.route = "POST /api/auth/logout"
          /\ req'.pc = "none" /\ resp'.status = 200
          /\ CarriedSession(req.cookie) # "undefined")
         => CarriedSession(req.cookie) \notin DOMAIN sessions'
      /\ (/\ req.pc = "none" /\ req'.pc = "handler"
          /\ resp.op = "POST /api/auth/logout" /\ resp.status = 200
          /\ CarriedSession(req'.cookie) # "undefined"
          /\ CarriedSession(req'.cookie) = resp.sessionId)
         => req'.context.sessionId = "undefined" ]_vars
(***************************************************************************)
(* Properties of the sessions                                              *)
(***************************************************************************)
\* a step in which getSessionUserId returns for a session createSession made
ResolveStep(sid) ==
  /\ req = NoRequest /\ req' = NoRequest
  /\ resp'.op = "getSessionUserId" /\ resp'.sessionId = sid
  /\ sid \in DOMAIN issued
  /\ UNCHANGED <<now, sessions, issued>>

DatabaseCheckSucceeds(r) == r.db = "row"
KvCheckSucceeds(r) == r.put = "ok" /\ r.get = "stored" /\ r.del = "ok"

\* C22: the health endpoint reports 'ok' with 200 exactly when both the
\* database check and the KV check (put, get back 'ok', delete) succeed,
\* 'degraded' with 503 when exactly one succeeds and 'down' with 503 when
\* neither does; it returns a response and never throws, whatever the stores
\* do.
HealthReportsChecks ==
  resp.op = "health" =>
    /\ ~resp.thrown
    /\ LET d == DatabaseCheckSucceeds(resp)
           k == KvCheckSucceeds(resp)
       IN /\ (resp.status = "ok" /\ resp.statusCode = 200) <=> (d /\ k)
          /\ (d # k) => resp.status = "degraded" /\ resp.statusCode = 503
          /\ (~d /\ ~k) => resp.status = "down" /\ resp.statusCode = 503

\* the same for the variant that reads context.env.ENV
HealthReportsChecksEnv ==
  (resp.op = "health" /\ resp.impl = "part_008") =>
    /\ ~resp.thrown
    /\ LET d == DatabaseCheckSucceeds(resp)
           k == KvCheckSucceeds(resp)
       IN /\ (resp.status = "ok" /\ resp.statusCode = 200) <=> (d /\ k)
          /\ (d # k) => resp.status = "degraded" /\ resp.statusCode = 503
          /\ (~d /\ ~k) => resp.status = "down" /\ resp.statusCode = 503

(***************************************************************************)
(* Properties of the setup script                                          *)
(***************************************************************************)
\* C23: setup is idempotent and complete: after a setup run finishes
\* successfully, on a fresh account or on one where setup already ran, the
\* database schema is applied and exactly one POC user with username
\* mahesh.local exists; a repeated run creates no second database, applies no
\* migration a second time and adds no second POC user.
SetupIdempotentAndComplete ==
  (resp.op = "setup" /\ resp.exit = 0) =>
    /\ cloud.d1 = 1 /\ cloud.tables /\ cloud.pocUsers = 1
    /\ resp.rerun =>
         /\ cloud.d1 = resp.before.d1
         /\ cloud.migrations <= 1
         /\ cloud.pocUsers <= 1

\* what does hold: no run makes a second database or a second POC user
SetupMakesNoDuplicate ==
  cloud.d1 <= 1 /\ cloud.pocUsers <= 1

(***************************************************************************)
(* Properties of the counters' expiry                                      *)
(***************************************************************************)
\* the window a counter key belongs to
WindowOfKey(key) == key[4]

\* C24: a counter written by an allowed checkLimit call in window W is not
\* expired at any later moment of W: its expiry, 70 seconds after the write,
\* lies after the end of W, so no call is admitted in W only because the
\* counter of W expired.
CounterOutlivesWindow ==
  \A key \in DOMAIN kv :
    /\ kv[key].exp > WindowOfKey(key) + windowMs
    /\ WindowStart(now) = WindowOfKey(key) => KVGet(key) # Null

\* a counter written earlier in the current window, read at a later moment
\* and a call of the same window denied on its count
CounterOutlivesWindowWitness ==
  /\ last.kind = "checkLimit" /\ last.path = "ok" /\ ~last.result.allowed
  /\ LET key == RateKey(last.userId, last.action, last.windowStart)
     IN /\ key \in DOMAIN kv
        /\ kv[key].exp - ExpirationTtl * 1000 < last.now
        /\ WindowStart(last.now) = WindowOfKey(key)

(***************************************************************************)
(* Properties of PATCH /api/admin/users/:id                                *)
(***************************************************************************)
PatchRoutes == {PatchAdminUser, PatchAdminUserInline}

\* a step in which one of the two PATCH handlers answers
PatchHandlerStep ==
  req.pc = "handler" /\ req.route \in PatchRoutes /\ req'.pc = "none"

\* what an actor who is not an admin is answered, from the actor alone
RejectionOf(context) ==
  IF ~context.isAuthenticated \/ context.user = NoUser
  THEN [status |-> 401, body |-> Unauthorized]
  ELSE [status |-> 403, body |-> Forbidden]

\* C25: for an unauthenticated actor and for an authenticated non-admin
\* actor, the response of PATCH /api/admin/users/:id (status and body) is the
\* same whether or not the target user exists: it is fixed by the actor alone,
\* and the handler has not read the users table.
PatchRejectionIgnoresTarget ==
  [][(PatchHandlerStep /\ ~(req.context.isAuthenticated /\ req.context.user.is_admin))
       => /\ resp'.status = RejectionOf(req.context).status
          /\ resp'.body = RejectionOf(req.context).body
          /\ ~resp'.dbRead
          /\ users' = users]_vars

\* a non-admin actor was answered 403 for a target that is not in the table
PatchRejectionWitness ==
  /\ resp.op \in PatchRoutes
  /\ resp.status = 403 /\ resp.body = Forbidden
  /\ resp.target \notin DOMAIN users

(***************************************************************************)
(* Properties of the stored counts                                         *)
(***************************************************************************)
\* the bucket of a counter key: its action, and the class of its identity
BucketOfKey(key) == ConfigOf(key[3], key[2] # "anonymous")

\* C26: with settings left unchanged, the value stored in any rate-limit
\* counter never exceeds the maxRequests of its bucket, in every reachable
\* state and under every interleaving of concurrent checkLimit and resetLimit
\* calls.
StoredCountWithinLimit ==
  \A key \in DOMAIN kv :
    ParseInt(kv[key].val) <= BucketOfKey(key).maxRequests

\* a counter stands at the limit of its bucket while more calls than the
\* limit were admitted in its window, two of them having run at once
StoredCountWitness ==
  \E key \in DOMAIN kv :
    /\ ParseInt(kv[key].val) = BucketOfKey(key).maxRequests
    /\ H(<<key[2], key[3], key[4]>>).admitted > BucketOfKey(key).maxRequests
    /\ peak >= 2

(***************************************************************************)
(* Properties of what checkLimit writes                                    *)
(***************************************************************************)
\* the key of a session entry in the KV namespace (session.ts lines 9, 40)
SessionKey(sessionId) == <<"session", sessionId>>

\* the KV namespace as a whole: the counters and the session entries
Namespace(counters, entries) ==
  [key \in DOMAIN counters \cup {SessionKey(x) : x \in DOMAIN entries} |->
     IF key \in DOMAIN counters THEN [val |-> counters[key].val]
     ELSE [val |-> (CHOOSE x \in DOMAIN entries : SessionKey(x) = key)]]

\* the keys whose entry differs between two namespaces
ChangedKeys(a, b) ==
  {key \in DOMAIN a \cup DOMAIN b :
     \/ key \notin DOMAIN a
     \/ key \notin DOMAIN b
     \/ a[key] # b[key]}

\* a step of a checkLimit call: it starts, or its kv.get or kv.put answers
CheckLimitStep == calls' # calls \/ flight' # flight

\* C27: a denied checkLimit call writes nothing to the counter store, and an
\* allowed checkLimit call changes only the counter of its own (identity,
\* action, window) key: counters of other identities, actions or windows and
\* the session entries in the same KV store are unchanged.
CheckLimitWritesOwnKeyOnly ==
  [][CheckLimitStep =>
       /\ sessions' = sessions
       /\ \A key \in ChangedKeys(kv, kv') :
            \E c \in BagToSet(flight) :
              /\ c.pc = "put" /\ ~BagIn(c, flight')
              /\ key = RateKey(c.userId, c.action, c.windowStart)
              /\ last'.kind = "checkLimit" /\ last'.result.allowed
       /\ \A key \in ChangedKeys(Namespace(kv, sessions), Namespace(kv', sessions')) :
            key[1] = "rate_limit"
       /\ (last' # last /\ last'.kind = "checkLimit" /\ ~last'.result.allowed)
            => kv' = kv]_vars

\* an allowed call has written its counter while a counter of another key
\* and a session entry are in the namespace
CheckLimitFrameWitness ==
  /\ last.kind = "checkLimit" /\ last.path = "ok" /\ last.result.allowed
  /\ RateKey(last.userId, last.action, last.windowStart) \in DOMAIN kv
  /\ \E key \in DOMAIN kv : key # RateKey(last.userId, last.action, last.windowStart)
  /\ "s1" \in DOMAIN sessions

(***************************************************************************)
(* Properties of session validation under store failures                   *)
(***************************************************************************)
\* C28: session validation fails closed: when the KV read raises, or the user
\* lookup raises, getSessionUserId and validateSession return null, and the
\* middleware whose KV read raises hands the request on to its handler with
\* isAuthenticated = false; a store failure never yields an authenticated
\* context.
SessionValidationFailsClosed ==
  /\ (resp.op = "getSessionUserId" /\ ~resp.read) => resp.userId = Undefined
  /\ (resp.op = "validateSession" /\ (~resp.read \/ resp.getUser = "raise"))
       => resp.user = Undefined
  /\ (req.pc = "handler" /\ ~req.read)
       => /\ ~req.context.isAuthenticated
          /\ req.context.user = NoUser

\* a request carrying a live session that would authenticate it reached its
\* handler unauthenticated, the KV read having raised
SessionValidationWitness ==
  /\ req.pc = "handler" /\ req.lookup /\ ~req.read
  /\ LET sessionId == extractSessionIdFromCookiesMw(req.cookie)
     IN /\ SessionLive(sessionId)
        /\ JSONParse(sessions[sessionId]).ok
  /\ ~req.context.isAuthenticated

(***************************************************************************)
(* Properties of concurrent createOrGetPOCUser calls                       *)
(***************************************************************************)
POCCallsReturned == \A i \in 1..MaxPocCalls : poc.calls[i].pc = "done"

\* the rows of users with the id of the POC user
POCRows == {id \in DOMAIN users : id = POC_USER_ID}

\* no call has thrown, and every call that returned gave the POC user's id
POCCallsReturnThePOCUser ==
  \A i \in 1..MaxPocCalls :
    /\ ~poc.calls[i].thrown
    /\ poc.calls[i].pc = "done" => poc.calls[i].id = POC_USER_ID

Yes == {"yes", "YES", "y", "Y"}

AnsweredYes(prompt) ==
  prompt \in DOMAIN cloud.answers /\ cloud.answers[prompt] \in Yes

\* C30: teardown issues the delete command of a resource (D1 database, KV
\* namespace, R2 bucket, Pages project) only after the user answered yes both
\* to the initial prompt and to that resource's own prompt; answering no to
\* the initial prompt ends the run with no delete command issued.
TeardownDeletesOnlyConfirmed ==
  /\ \A resource \in Resources :
       resource \in cloud.commands =>
         AnsweredYes("initial") /\ AnsweredYes(resource)
  /\ ("initial" \in DOMAIN cloud.answers /\ ~AnsweredYes("initial"))
       => cloud.commands = {} /\ cloud.pc = "idle"
  /\ cloud.commands \subseteq Resources

\* a resource of the account goes only in a step that issues its command
TeardownRemovesOnlyCommanded ==
  [][/\ (cloud'.d1 < cloud.d1) => ("d1" \in cloud'.commands /\ cloud.pc = "d1")
     /\ \A resource \in cloud.others \ cloud'.others :
          resource \in cloud'.commands /\ cloud.pc = resource]_vars

\* a run on an account that was set up has ended: the database was deleted
\* on two yes, the KV namespace was kept on a no at its own prompt
TeardownWitness ==
  /\ cloud.pc = "idle" /\ resp = [op |-> "teardown", exit |-> 0]
  /\ cloud.finished /\ cloud.d1 = 0
  /\ "d1" \in cloud.commands /\ "kv" \notin cloud.commands
  /\ "kv" \in DOMAIN cloud.answers /\ "kv" \in cloud.others

====
